---- MODULE Spec2Model ----
(***************************************************************************)
(* A state-machine model of korangar's GraphicsEngine                      *)
(* (korangar/src/graphics/engine.rs): the platform lifecycle hooks         *)
(* (on_resume, on_suspended, on_resize), the settings setters, and the     *)
(* per-frame protocol wait_for_next_frame / render_next_frame with the GPU *)
(* queue as a separate asynchronous execution domain.                      *)
(***************************************************************************)
EXTENDS Integers, Sequences, FiniteSets, TLC

(***************************************************************************)
(* Bounds of the model.                                                    *)
(***************************************************************************)
\* Frames acquired in one run.
MaxFrames == 2
\* Tiles of the world have x in 0..MaxTile; client ticks run to MaxTick.
MaxTile == 3
MaxTick == 4
MaxKey == 2
\* EngineContexts built in one run.
MaxBuilds == 2
\* crate::NUMBER_OF_POINT_LIGHTS_WITH_SHADOWS is imported by engine.rs; its
\* value is set in the crate root.  The model is parametric in it.
NUMBER_OF_POINT_LIGHTS_WITH_SHADOWS == 2

\* Option::None of a struct-valued option, and of Option<TextureFormat>
None == [none |-> TRUE]
NoFormat == "None"

(***************************************************************************)
(* Input domains.                                                          *)
(***************************************************************************)
TextureFormats == {"Bgra8UnormSrgb", "Rgba8UnormSrgb"}
ShadowDetails == {"Low", "Ultra"}
TextureSamplerTypes == {"Nearest", "Linear"}
Unlimited == [limited |-> FALSE, rate |-> 0]
Limit(rate) == [limited |-> TRUE, rate |-> rate]
LimitFramerates == {Unlimited, Limit(30)}
Size(w, h) == [width |-> w, height |-> h]
\* window.inner_size() may be 0x0 (a minimised window)
InnerSizes == {Size(0, 0), Size(2, 2)}
ScreenSizes == {Size(1, 1), Size(2, 2)}
\* the settings the client passes to on_resume
ResumeSettings ==
    { [ triple_buffering |-> TRUE, vsync |-> TRUE, shadow_detail |-> "Low",
        texture_sampler_type |-> "Nearest" ],
      [ triple_buffering |-> FALSE, vsync |-> FALSE, shadow_detail |-> "Ultra",
        texture_sampler_type |-> "Linear" ] }

(***************************************************************************)
(* The members of EngineContext besides global_context.                    *)
(***************************************************************************)
PassContexts ==
    { "interface_render_pass_context", "picker_render_pass_context",
      "directional_shadow_pass_context", "point_shadow_pass_context",
      "geometry_pass_context", "screen_pass_context" }

Drawers ==
    { "interface_rectangle_drawer", "picker_entity_drawer", "picker_tile_drawer",
      "directional_shadow_model_drawer", "directional_shadow_entity_drawer",
      "directional_shadow_indicator_drawer", "point_shadow_entity_drawer",
      "point_shadow_model_drawer", "point_shadow_indicator_drawer",
      "geometry_model_drawer", "geometry_indicator_drawer",
      "geometry_entity_drawer", "geometry_water_drawer",
      "screen_ambient_light_drawer", "screen_directional_light_drawer",
      "screen_point_light_drawer", "screen_water_light_drawer",
      "screen_rectangle_drawer", "screen_effect_drawer", "screen_overlay_drawer" }

\* #[cfg(feature = "debug")] members
DebugDrawers ==
    { "picker_marker_drawer", "screen_aabb_drawer", "screen_circle_drawer",
      "screen_buffer_drawer" }

Components(debug) == PassContexts \cup Drawers \cup (IF debug THEN DebugDrawers ELSE {})

VARIABLES
    target_os_android,      \* cfg!(target_os = "android")
    feature_debug,          \* cfg(feature = "debug")
    surface,                \* Option<Surface>
    previous_surface_texture_format,
    engine_context,         \* Option<EngineContext>
    limit_framerate,
    frame_pacer,            \* FramePacer with the engine's cpu_stage
    staging_belt,
    picker_value,           \* the shared Arc<AtomicU64> cell
    contexts_built,         \* generations handed out so far
    picker_value_buffers,   \* GPU memory: content of each context's picker buffer
    pending_reads,          \* buffers with a queued asynchronous read
    device_queue,           \* submitted work the GPU has not executed yet
    submissions,            \* generation of the context of every submission so far
    submitted,              \* the command buffers of the last queue.submit
    pc,                     \* position of the calling thread
    frame,                  \* the SurfaceTexture the caller holds
    frames_acquired,
    instruction,            \* the RenderInstruction of the frame in progress
    prepare_command_buffer,
    draw_command_buffers,   \* the tuple draw_frame returned
    trace,                  \* steps of the frame in progress, in order
    tasks,                  \* the calls each task spawned in the scope has left
    in_place,               \* the calls the calling thread has left in the scope
    prepared,               \* for each component, the threads that prepared it
    encoders,               \* the command encoders being recorded and their writers
    last_op,                \* the last public operation and what it did
    entity,                 \* Option<Entity>: the Common of one entity of the world
    entity_op,              \* the last call on the entity, its arguments and result
    login_window            \* Option: the login window, its two fields, the last action

build == <<target_os_android, feature_debug>>
engine == <<surface, previous_surface_texture_format, engine_context, contexts_built>>
pacing == <<limit_framerate, frame_pacer>>
gpu == <<picker_value_buffers, pending_reads, device_queue, submissions, submitted, picker_value>>
recording == <<instruction, prepare_command_buffer, draw_command_buffers>>
caller == <<pc, frame, frames_acquired, trace>>
workers == <<tasks, in_place, prepared, encoders>>
vars == <<build, engine, pacing, staging_belt, gpu, recording, caller, workers, last_op, entity, entity_op, login_window>>

(***************************************************************************)
(* Texels of the picker texture.  The texel the picker pass of frame n     *)
(* copies is tagged with n, so texels of different frames differ.          *)
(***************************************************************************)
Texel(n, x, y) == [frame |-> n, x |-> x, y |-> y]
\* content of a picker value buffer nothing was copied into
NoTexel == Texel(0, 0, 0)

(***************************************************************************)
(* Surface (graphics/surface.rs): the presentable target.                  *)
(***************************************************************************)
SurfaceNew(format, width, height, triple_buffering, vsync) ==
    [ format |-> format, window_size |-> Size(width, height), invalid |-> FALSE,
      triple_buffering |-> triple_buffering, vsync |-> vsync ]

update_window_size(s, screen_size) ==
    [s EXCEPT !.window_size = screen_size, !.invalid = TRUE]

reconfigure(s) == [s EXCEPT !.invalid = FALSE]

(***************************************************************************)
(* GlobalContext: the cross-pass resources.  The picker value buffer is    *)
(* GPU memory and is named by the generation of the context that owns it.  *)
(***************************************************************************)
GlobalContextNew(generation, format, screen_size, shadow_detail, texture_sampler_type) ==
    [ surface_texture_format |-> format,
      screen_size_textures |-> screen_size,
      shadow_size_textures |-> shadow_detail,
      texture_sampler |-> texture_sampler_type,
      picker_value_buffer |-> generation ]

update_shadow_size_textures(global_context, shadow_detail) ==
    [global_context EXCEPT !.shadow_size_textures = shadow_detail]

update_screen_size_textures(global_context, screen_size) ==
    [global_context EXCEPT !.screen_size_textures = screen_size]

update_texture_sampler(global_context, texture_sampler_type) ==
    [global_context EXCEPT !.texture_sampler = texture_sampler_type]

(***************************************************************************)
(* on_resume, "create contexts" and "create computer and drawer": every    *)
(* pass context and every drawer is constructed anew against the new       *)
(* global context.  A component's value is the generation it was           *)
(* constructed in.                                                         *)
(***************************************************************************)
\* A rebuild that patches the old context: only the global context and the
\* screen pass context, which depend on the format, are constructed anew.
EngineContextPatched(generation, format, screen_size, shadow_detail, texture_sampler_type, debug) ==
    [ generation |-> generation,
      global_context |->
          GlobalContextNew(generation, format, screen_size, shadow_detail, texture_sampler_type),
      components |->
          [c \in Components(debug) |->
              IF engine_context = None \/ c = "screen_pass_context"
              THEN generation ELSE engine_context.components[c]] ]

EngineContextNew(generation, format, screen_size, shadow_detail, texture_sampler_type, debug) ==
    [ generation |-> generation,
      global_context |->
          GlobalContextNew(generation, format, screen_size, shadow_detail, texture_sampler_type),
      components |-> [c \in Components(debug) |-> generation] ]

\* PhysicalSize derives Ord: max compares the width first, then the height.
PhysicalSizeMax(a, b) ==
    IF a.width > b.width \/ (a.width = b.width /\ a.height >= b.height) THEN a ELSE b

Op(name) ==
    [ op |-> name, created_surface |-> FALSE, rebuilt |-> FALSE,
      reconfigured |-> FALSE, paced |-> FALSE, steps |-> <<>>, limit |-> None ]

Idle == pc = "idle"

(***************************************************************************)
(* GraphicsEngine::initialize                                              *)
(***************************************************************************)
Init ==
    /\ target_os_android \in BOOLEAN
    /\ feature_debug \in BOOLEAN
    /\ surface = None
    /\ previous_surface_texture_format = NoFormat
    /\ engine_context = None
    /\ limit_framerate = FALSE
    /\ frame_pacer = [monitor_frequency |-> 60, cpu_stage |-> "created"]
    /\ staging_belt = "new"
    /\ picker_value = NoTexel
    /\ contexts_built = 0
    /\ picker_value_buffers = <<>>
    /\ pending_reads = {}
    /\ device_queue = <<>>
    /\ submissions = <<>>
    /\ submitted = <<>>
    /\ pc = "idle"
    /\ frame = None
    /\ frames_acquired = 0
    /\ instruction = None
    /\ prepare_command_buffer = None
    /\ draw_command_buffers = <<>>
    /\ trace = <<>>
    /\ tasks = <<>>
    /\ in_place = <<>>
    /\ prepared = <<>>
    /\ encoders = <<>>
    /\ last_op = Op("initialize")
    /\ entity = None
    /\ entity_op = [ op |-> "none", client_tick |-> 0, map |-> None, position |-> None,
                     destination |-> None, returned |-> None, animation_data |-> None,
                     played |-> None ]
    /\ login_window = None

(***************************************************************************)
(* GraphicsEngine::set_limit_framerate                                     *)
(***************************************************************************)
\* A setter that leaves the pacing on when the limit is lifted.
set_limit_framerate_keeps_pacing(limit) ==
    IF limit.limited
    THEN /\ limit_framerate' = TRUE
         /\ frame_pacer' = [frame_pacer EXCEPT !.monitor_frequency = limit.rate]
    ELSE /\ limit_framerate' = limit_framerate
         /\ frame_pacer' = frame_pacer

set_limit_framerate(limit) ==
    IF limit.limited
    THEN /\ limit_framerate' = TRUE
         /\ frame_pacer' = [frame_pacer EXCEPT !.monitor_frequency = limit.rate]
    ELSE /\ limit_framerate' = FALSE
         /\ frame_pacer' = frame_pacer

SetLimitFramerate(limit) ==
    /\ Idle
    /\ set_limit_framerate(limit)
    /\ last_op' = [Op("set_limit_framerate") EXCEPT !.limit = limit]
    /\ UNCHANGED <<build, login_window, entity, entity_op, workers, engine, staging_belt, gpu, recording, caller>>

\* An on_resume that applies its settings to the surface and the context
\* it already has.
OnResumeAppliesSettings(inner_size, triple_buffering, vsync, limit, shadow_detail, texture_sampler_type, negotiated) ==
    /\ Idle
    /\ set_limit_framerate(limit)
    /\ IF surface = None
       THEN LET screen_size == PhysicalSizeMax(inner_size, Size(1, 1))
                new_surface == SurfaceNew(negotiated, screen_size.width, screen_size.height,
                                          triple_buffering, vsync)
                surface_texture_format == new_surface.format
                rebuild == previous_surface_texture_format # surface_texture_format
            IN  /\ rebuild => contexts_built < MaxBuilds
                /\ IF rebuild
                   THEN /\ previous_surface_texture_format' = surface_texture_format
                        /\ contexts_built' = contexts_built + 1
                        /\ engine_context' =
                               EngineContextNew(contexts_built + 1, surface_texture_format,
                                                screen_size, shadow_detail,
                                                texture_sampler_type, feature_debug)
                        /\ picker_value_buffers' = Append(picker_value_buffers, NoTexel)
                   ELSE UNCHANGED <<previous_surface_texture_format, contexts_built,
                                    engine_context, picker_value_buffers>>
                /\ surface' = new_surface
                /\ last_op' = [Op("on_resume") EXCEPT !.limit = limit, !.created_surface = TRUE,
                                                      !.rebuilt = rebuild]
       ELSE /\ surface' = [surface EXCEPT !.triple_buffering = triple_buffering,
                                          !.vsync = vsync]
            /\ engine_context' =
                   [engine_context EXCEPT !.global_context =
                        update_texture_sampler(
                            update_shadow_size_textures(@, shadow_detail),
                            texture_sampler_type)]
            /\ UNCHANGED <<previous_surface_texture_format, contexts_built,
                           picker_value_buffers>>
            /\ last_op' = [Op("on_resume") EXCEPT !.limit = limit]
    /\ UNCHANGED <<build, login_window, entity, entity_op, workers, staging_belt, pending_reads, device_queue, submissions,
                   submitted, picker_value, recording, caller>>

\* An on_resume that rebuilds the context for every surface it creates.
OnResumeAlwaysRebuilds(inner_size, triple_buffering, vsync, limit, shadow_detail, texture_sampler_type, negotiated) ==
    /\ Idle
    /\ set_limit_framerate(limit)
    /\ IF surface = None
       THEN LET screen_size == PhysicalSizeMax(inner_size, Size(1, 1))
                new_surface == SurfaceNew(negotiated, screen_size.width, screen_size.height,
                                          triple_buffering, vsync)
            IN  /\ contexts_built < MaxBuilds
                /\ previous_surface_texture_format' = new_surface.format
                /\ contexts_built' = contexts_built + 1
                /\ engine_context' =
                       EngineContextNew(contexts_built + 1, new_surface.format, screen_size,
                                        shadow_detail, texture_sampler_type, feature_debug)
                /\ picker_value_buffers' = Append(picker_value_buffers, NoTexel)
                /\ surface' = new_surface
                /\ last_op' = [Op("on_resume") EXCEPT !.limit = limit, !.created_surface = TRUE,
                                                      !.rebuilt = TRUE]
       ELSE /\ UNCHANGED <<engine, picker_value_buffers>>
            /\ last_op' = [Op("on_resume") EXCEPT !.limit = limit]
    /\ UNCHANGED <<build, login_window, entity, entity_op, workers, staging_belt, pending_reads, device_queue, submissions,
                   submitted, picker_value, recording, caller>>

(***************************************************************************)
(* GraphicsEngine::on_resume.  negotiated is the format Surface::new       *)
(* settles on with the adapter; it is only negotiated when a surface is    *)
(* created.                                                                *)
(***************************************************************************)
OnResume(inner_size, triple_buffering, vsync, limit, shadow_detail, texture_sampler_type, negotiated) ==
    /\ Idle
    /\ set_limit_framerate(limit)
    /\ IF surface = None
       THEN LET screen_size == PhysicalSizeMax(inner_size, Size(1, 1))
                new_surface == SurfaceNew(negotiated, screen_size.width, screen_size.height,
                                          triple_buffering, vsync)
                surface_texture_format == new_surface.format
                rebuild == previous_surface_texture_format # surface_texture_format
            IN  /\ rebuild => contexts_built < MaxBuilds
                /\ IF rebuild
                   THEN /\ previous_surface_texture_format' = surface_texture_format
                        /\ contexts_built' = contexts_built + 1
                        /\ engine_context' =
                               EngineContextNew(contexts_built + 1, surface_texture_format,
                                                screen_size, shadow_detail,
                                                texture_sampler_type, feature_debug)
                        /\ picker_value_buffers' = Append(picker_value_buffers, NoTexel)
                   ELSE UNCHANGED <<previous_surface_texture_format, contexts_built,
                                    engine_context, picker_value_buffers>>
                /\ surface' = new_surface
                /\ last_op' = [Op("on_resume") EXCEPT !.limit = limit, !.created_surface = TRUE,
                                                      !.rebuilt = rebuild]
       ELSE /\ UNCHANGED <<engine, picker_value_buffers>>
            /\ last_op' = [Op("on_resume") EXCEPT !.limit = limit]
    /\ UNCHANGED <<build, login_window, entity, entity_op, workers, staging_belt, pending_reads, device_queue, submissions,
                   submitted, picker_value, recording, caller>>

\* An on_suspended that drops the context together with the surface.
OnSuspendedDropsContext ==
    /\ Idle
    /\ surface' = IF target_os_android THEN None ELSE surface
    /\ engine_context' = IF target_os_android THEN None ELSE engine_context
    /\ last_op' = Op("on_suspended")
    /\ UNCHANGED <<build, login_window, entity, entity_op, workers, previous_surface_texture_format, contexts_built,
                   pacing, staging_belt, gpu, recording, caller>>

\* An on_suspended that drops the surface on every platform.
OnSuspendedEverywhere ==
    /\ Idle
    /\ surface' = None
    /\ last_op' = Op("on_suspended")
    /\ UNCHANGED <<build, login_window, entity, entity_op, workers, previous_surface_texture_format, engine_context, contexts_built,
                   pacing, staging_belt, gpu, recording, caller>>

(***************************************************************************)
(* GraphicsEngine::on_suspended                                            *)
(***************************************************************************)
OnSuspended ==
    /\ Idle
    /\ surface' = IF target_os_android THEN None ELSE surface
    /\ last_op' = Op("on_suspended")
    /\ UNCHANGED <<build, login_window, entity, entity_op, workers, previous_surface_texture_format, engine_context, contexts_built,
                   pacing, staging_belt, gpu, recording, caller>>

(***************************************************************************)
(* GraphicsEngine::on_resize                                               *)
(***************************************************************************)
OnResize(screen_size) ==
    /\ Idle
    /\ surface' = IF surface # None THEN update_window_size(surface, screen_size) ELSE surface
    /\ last_op' = Op("on_resize")
    /\ UNCHANGED <<build, login_window, entity, entity_op, workers, previous_surface_texture_format, engine_context, contexts_built,
                   pacing, staging_belt, gpu, recording, caller>>

\* A set_shadow_detail that invalidates the whole context instead of
\* resizing the shadow textures in place.
SetShadowDetailInvalidates(shadow_detail) ==
    /\ Idle
    /\ engine_context' = None
    /\ previous_surface_texture_format' = NoFormat
    /\ last_op' = Op("set_shadow_detail")
    /\ UNCHANGED <<build, login_window, entity, entity_op, workers, surface, contexts_built, pacing, staging_belt, gpu, recording,
                   caller>>

(***************************************************************************)
(* GraphicsEngine::set_shadow_detail                                       *)
(***************************************************************************)
SetShadowDetail(shadow_detail) ==
    /\ Idle
    /\ engine_context' =
           IF engine_context # None
           THEN [engine_context EXCEPT !.global_context =
                     update_shadow_size_textures(@, shadow_detail)]
           ELSE engine_context
    /\ last_op' = Op("set_shadow_detail")
    /\ UNCHANGED <<build, login_window, entity, entity_op, workers, surface, previous_surface_texture_format, contexts_built,
                   pacing, staging_belt, gpu, recording, caller>>

(***************************************************************************)
(* GraphicsEngine::set_texture_sampler_type                                *)
(***************************************************************************)
SetTextureSamplerType(texture_sampler_type) ==
    /\ Idle
    /\ engine_context' =
           IF engine_context # None
           THEN [engine_context EXCEPT !.global_context =
                     update_texture_sampler(@, texture_sampler_type)]
           ELSE engine_context
    /\ last_op' = Op("set_texture_sampler_type")
    /\ UNCHANGED <<build, login_window, entity, entity_op, workers, surface, previous_surface_texture_format, contexts_built,
                   pacing, staging_belt, gpu, recording, caller>>

(***************************************************************************)
(* RenderInstruction: the per-frame input.  point_light_shadow_caster is   *)
(* the length of the slice; map_water_vertex_buffer says whether the       *)
(* Option is Some; render_settings exists in debug builds only.            *)
(***************************************************************************)
RenderSettings ==
    [ show_ambient_light : BOOLEAN, show_directional_light : BOOLEAN,
      show_point_lights : BOOLEAN ]

AllLights ==
    [ show_ambient_light |-> TRUE, show_directional_light |-> TRUE,
      show_point_lights |-> TRUE ]

Position(left, top) == [left |-> left, top |-> top]

RenderInstruction(casters, position, show_interface, settings, water, bottom, middle, top) ==
    [ point_light_shadow_caster |-> casters,
      picker_position |-> position,
      show_interface |-> show_interface,
      render_settings |-> settings,
      map_water_vertex_buffer |-> water,
      bottom_layer_rectangles |-> bottom,
      middle_layer_rectangles |-> middle,
      top_layer_rectangles |-> top ]

\* Instructions of the lifecycle specification: the caster count is the most
\* the engine accepts, or one more.
LifecycleInstructions ==
    { RenderInstruction(n, Position(1, 0), TRUE,
                        IF feature_debug THEN AllLights ELSE None,
                        TRUE, <<1>>, <<2>>, <<3>>) :
        n \in { NUMBER_OF_POINT_LIGHTS_WITH_SHADOWS,
                 NUMBER_OF_POINT_LIGHTS_WITH_SHADOWS + 1 } }

RectangleLists == {<<>>, <<2, 1>>}
\* inside the texture, beyond its extent, and left of it
PickerPositions == {Position(0, 0), Position(5, 1), Position(-3, 2)}

\* Instructions of the task specification: a frame with nothing to show
\* and a frame with the interface, casters and rectangles.
TaskInstructions ==
    { RenderInstruction(0, Position(0, 0), FALSE,
                        IF feature_debug THEN AllLights ELSE None,
                        FALSE, <<>>, <<>>, <<>>),
      RenderInstruction(NUMBER_OF_POINT_LIGHTS_WITH_SHADOWS, Position(1, 0), TRUE,
                        IF feature_debug THEN AllLights ELSE None,
                        TRUE, <<1>>, <<2>>, <<3>>) }

\* Instructions of the draw specification: every field the draw stage reads varies.
DrawInstructions ==
    { RenderInstruction(n, position, show_interface, settings, water, bottom, middle, top) :
        n \in {0, NUMBER_OF_POINT_LIGHTS_WITH_SHADOWS},
        position \in PickerPositions,
        show_interface \in BOOLEAN,
        settings \in (IF feature_debug THEN RenderSettings ELSE {None}),
        water \in BOOLEAN,
        bottom \in RectangleLists, middle \in RectangleLists, top \in RectangleLists }

(***************************************************************************)
(* Commands recorded into an encoder, and command buffers.                 *)
(***************************************************************************)
Cmd(cmd, target, layer, data) ==
    [cmd |-> cmd, target |-> target, layer |-> layer, data |-> data]

create_pass(pass_context, pass_data) == Cmd("begin_render_pass", pass_context, "", pass_data)
end_pass(pass_context) == Cmd("end_render_pass", pass_context, "", <<>>)
draw(drawer) == Cmd("draw", drawer, "", <<>>)
draw_layer(drawer, layer, instructions) == Cmd("draw", drawer, layer, instructions)
upload(component) == Cmd("upload", component, "", <<>>)

CommandBuffer(name, commands) ==
    [ name |-> name, frame |-> frame.number, generation |-> engine_context.generation,
      commands |-> commands ]

Min(a, b) == IF a <= b THEN a ELSE b
Range(s) == {s[i] : i \in DOMAIN s}
\* f32 as u32 saturates at zero
AsU32(v) == IF v < 0 THEN 0 ELSE v
When(condition, commands) == IF condition THEN commands ELSE <<>>

(***************************************************************************)
(* prepare_frame_data: the spawned task groups, the calls on the calling   *)
(* thread, and the order of the uploads.                                   *)
(***************************************************************************)
\* Task groups in which the screen rectangle drawer is prepared twice: with
\* the interface rectangles and with the point lights.
PrepareTasksSharedDrawer(debug) ==
    << <<"directional_shadow_entity_drawer", "directional_shadow_model_drawer">>,
       <<"geometry_entity_drawer", "geometry_model_drawer">>,
       <<"interface_rectangle_drawer", "screen_rectangle_drawer">>,
       <<"point_shadow_entity_drawer", "point_shadow_model_drawer">>,
       <<"screen_directional_light_drawer", "screen_effect_drawer">>,
       <<"screen_point_light_drawer", "screen_rectangle_drawer">> >>
    \o When(debug, << <<"picker_marker_drawer", "screen_aabb_drawer">>,
                      <<"screen_buffer_drawer", "screen_circle_drawer">> >>)

PrepareTasks(debug) ==
    << <<"directional_shadow_entity_drawer", "directional_shadow_model_drawer">>,
       <<"geometry_entity_drawer", "geometry_model_drawer">>,
       <<"interface_rectangle_drawer">>,
       <<"point_shadow_entity_drawer", "point_shadow_model_drawer">>,
       <<"screen_directional_light_drawer", "screen_effect_drawer">>,
       <<"screen_point_light_drawer", "screen_rectangle_drawer">> >>
    \o When(debug, << <<"picker_marker_drawer", "screen_aabb_drawer">>,
                      <<"screen_buffer_drawer", "screen_circle_drawer">> >>)

\* Calls of the closure that leave out the picker entity drawer.
PrepareInPlaceWithoutPicker ==
    << "global_context", "directional_shadow_pass_context", "point_shadow_pass_context" >>

PrepareInPlace ==
    << "global_context", "directional_shadow_pass_context", "point_shadow_pass_context",
       "picker_entity_drawer" >>

\* An upload order that leaves out the interface rectangles of a frame
\* that does not show the interface.
UploadOrderSkipsHidden(debug) ==
    << "directional_shadow_entity_drawer", "directional_shadow_model_drawer",
       "directional_shadow_pass_context", "geometry_entity_drawer",
       "geometry_model_drawer", "global_context" >>
    \o When(instruction.show_interface, << "interface_rectangle_drawer" >>)
    \o << "picker_entity_drawer", "point_shadow_entity_drawer", "point_shadow_model_drawer",
          "point_shadow_pass_context", "screen_directional_light_drawer",
          "screen_effect_drawer", "screen_point_light_drawer", "screen_rectangle_drawer" >>
    \o When(debug, << "picker_marker_drawer", "screen_aabb_drawer",
                      "screen_buffer_drawer", "screen_circle_drawer" >>)

UploadOrder(debug) ==
    << "directional_shadow_entity_drawer", "directional_shadow_model_drawer",
       "directional_shadow_pass_context", "geometry_entity_drawer",
       "geometry_model_drawer", "global_context", "interface_rectangle_drawer",
       "picker_entity_drawer", "point_shadow_entity_drawer", "point_shadow_model_drawer",
       "point_shadow_pass_context", "screen_directional_light_drawer",
       "screen_effect_drawer", "screen_point_light_drawer", "screen_rectangle_drawer" >>
    \o When(debug, << "picker_marker_drawer", "screen_aabb_drawer",
                      "screen_buffer_drawer", "screen_circle_drawer" >>)

(***************************************************************************)
(* draw_frame: the commands of each pass.                                  *)
(***************************************************************************)
\* A picker pass that copies the texel at the requested position as it is.
PickerPassUnclamped(instr, debug) ==
    LET x == AsU32(instr.picker_position.left)
        y == AsU32(instr.picker_position.top)
    IN  << create_pass("picker_render_pass_context", <<>>),
           draw("picker_tile_drawer"),
           draw("picker_entity_drawer") >>
        \o When(debug, << draw("picker_marker_drawer") >>)
        \o << end_pass("picker_render_pass_context"),
              Cmd("copy_texture_to_buffer", "picker_value_buffer", "", <<x, y, 0, 1, 1, 1>>) >>

PickerPass(instr, debug) ==
    LET unpadded_texture_size == engine_context.global_context.screen_size_textures
        x == Min(unpadded_texture_size.width - 1, AsU32(instr.picker_position.left))
        y == Min(unpadded_texture_size.height - 1, AsU32(instr.picker_position.top))
    IN  << create_pass("picker_render_pass_context", <<>>),
           draw("picker_tile_drawer"),
           draw("picker_entity_drawer") >>
        \o When(debug, << draw("picker_marker_drawer") >>)
        \o << end_pass("picker_render_pass_context"),
              Cmd("copy_texture_to_buffer", "picker_value_buffer", "", <<x, y, 0, 1, 1, 1>>) >>

InterfacePass(instr) ==
    << create_pass("interface_render_pass_context", <<>>),
       draw("interface_rectangle_drawer"),
       end_pass("interface_render_pass_context") >>

\* A directional shadow pass with the drawers in the order of a point
\* shadow sub-pass.
DirectionalShadowPassEntityFirst(instr) ==
    << create_pass("directional_shadow_pass_context", <<>>),
       draw("directional_shadow_model_drawer"),
       draw("directional_shadow_entity_drawer"),
       draw("directional_shadow_indicator_drawer"),
       end_pass("directional_shadow_pass_context") >>

DirectionalShadowPass(instr) ==
    << create_pass("directional_shadow_pass_context", <<>>),
       draw("directional_shadow_model_drawer"),
       draw("directional_shadow_indicator_drawer"),
       draw("directional_shadow_entity_drawer"),
       end_pass("directional_shadow_pass_context") >>

PointShadowFace(shadow_caster_index, face_index) ==
    << create_pass("point_shadow_pass_context", <<shadow_caster_index, face_index>>),
       draw("point_shadow_model_drawer"),
       draw("point_shadow_entity_drawer"),
       draw("point_shadow_indicator_drawer"),
       end_pass("point_shadow_pass_context") >>

\* Sub-passes for five faces of the cube.
PointShadowFacesFive(shadow_caster_index, face_index) ==
    PointShadowFace(shadow_caster_index, 0) \o PointShadowFace(shadow_caster_index, 1)
    \o PointShadowFace(shadow_caster_index, 2) \o PointShadowFace(shadow_caster_index, 3)
    \o PointShadowFace(shadow_caster_index, 4)

RECURSIVE PointShadowFaces(_, _)
PointShadowFaces(shadow_caster_index, face_index) ==
    IF face_index >= 6 THEN <<>>
    ELSE PointShadowFace(shadow_caster_index, face_index)
         \o PointShadowFaces(shadow_caster_index, face_index + 1)

RECURSIVE PointShadowCasters(_, _)
PointShadowCasters(shadow_caster_index, len) ==
    IF shadow_caster_index >= len THEN <<>>
    ELSE PointShadowFaces(shadow_caster_index, 0)
         \o PointShadowCasters(shadow_caster_index + 1, len)

PointShadowPass(instr) == PointShadowCasters(0, instr.point_light_shadow_caster)

GeometryPass(instr) ==
    << create_pass("geometry_pass_context", <<>>),
       draw("geometry_model_drawer"),
       draw("geometry_indicator_drawer"),
       draw("geometry_entity_drawer") >>
    \o When(instr.map_water_vertex_buffer, << draw("geometry_water_drawer") >>)
    \o << end_pass("geometry_pass_context") >>

\* korangar_debug::debug_condition(c) guards the statement by c in debug builds
debug_condition(debug, instr, flag) == (~debug) \/ instr.render_settings[flag]

\* A lighting section whose water light is gated with the point lights.
ScreenLightingWaterGated(instr, debug) ==
    When(debug_condition(debug, instr, "show_ambient_light"),
         << draw("screen_ambient_light_drawer") >>)
    \o When(debug_condition(debug, instr, "show_directional_light"),
            << draw("screen_directional_light_drawer") >>)
    \o When(debug_condition(debug, instr, "show_point_lights"),
            << draw("screen_point_light_drawer"), draw("screen_water_light_drawer") >>)

\* the lighting draw calls that open the screen pass
ScreenLighting(instr, debug) ==
    When(debug_condition(debug, instr, "show_ambient_light"),
         << draw("screen_ambient_light_drawer") >>)
    \o When(debug_condition(debug, instr, "show_directional_light"),
            << draw("screen_directional_light_drawer") >>)
    \o When(debug_condition(debug, instr, "show_point_lights"),
            << draw("screen_point_light_drawer") >>)
    \o << draw("screen_water_light_drawer") >>

\* A screen pass that draws the overlay on top of the Top layer.
ScreenPassOverlayLast(instr, debug) ==
    << create_pass("screen_pass_context", <<>>) >>
    \o ScreenLighting(instr, debug)
    \o When(debug, << draw("screen_aabb_drawer"), draw("screen_circle_drawer") >>)
    \o << draw_layer("screen_rectangle_drawer", "Bottom", instr.bottom_layer_rectangles),
          draw("screen_effect_drawer") >>
    \o When(debug, << draw("screen_buffer_drawer") >>)
    \o << draw_layer("screen_rectangle_drawer", "Middle", instr.middle_layer_rectangles) >>
    \o When(debug, << draw("screen_aabb_drawer") >>)
    \o << draw_layer("screen_rectangle_drawer", "Top", instr.top_layer_rectangles) >>
    \o When(instr.show_interface, << draw("screen_overlay_drawer") >>)
    \o << end_pass("screen_pass_context") >>

ScreenPass(instr, debug) ==
    << create_pass("screen_pass_context", <<>>) >>
    \o ScreenLighting(instr, debug)
    \o When(debug, << draw("screen_aabb_drawer"), draw("screen_circle_drawer") >>)
    \o << draw_layer("screen_rectangle_drawer", "Bottom", instr.bottom_layer_rectangles),
          draw("screen_effect_drawer") >>
    \o When(debug, << draw("screen_buffer_drawer") >>)
    \o << draw_layer("screen_rectangle_drawer", "Middle", instr.middle_layer_rectangles) >>
    \o When(debug, << draw("screen_aabb_drawer") >>)
    \o When(instr.show_interface, << draw("screen_overlay_drawer") >>)
    \o << draw_layer("screen_rectangle_drawer", "Top", instr.top_layer_rectangles),
          end_pass("screen_pass_context") >>

\* the tuple draw_frame returns
DrawFrameResult(instr, debug) ==
    << CommandBuffer("picker", PickerPass(instr, debug)),
       CommandBuffer("interface", InterfacePass(instr)),
       CommandBuffer("directional_shadow", DirectionalShadowPass(instr)),
       CommandBuffer("point_shadow", PointShadowPass(instr)),
       CommandBuffer("geometry", GeometryPass(instr)),
       CommandBuffer("screen", ScreenPass(instr, debug)) >>

(***************************************************************************)
(* The GPU: submitted command buffers execute asynchronously, in order.    *)
(* A copy_texture_to_buffer of a frame's picker pass writes that frame's   *)
(* texel into the picker value buffer of the context that recorded it.     *)
(***************************************************************************)
IsCopy(command) == command.cmd = "copy_texture_to_buffer"

ExecuteCommandBuffer(buffers, command_buffer) ==
    LET copies == SelectSeq(command_buffer.commands, IsCopy)
        last == copies[Len(copies)]
    IN  IF copies = <<>> THEN buffers
        ELSE [buffers EXCEPT ![command_buffer.generation] =
                  Texel(command_buffer.frame, last.data[1], last.data[2])]

RECURSIVE ExecuteSubmission(_, _)
ExecuteSubmission(buffers, command_buffers) ==
    IF command_buffers = <<>> THEN buffers
    ELSE ExecuteSubmission(ExecuteCommandBuffer(buffers, Head(command_buffers)),
                           Tail(command_buffers))

RECURSIVE ExecuteQueue(_, _)
ExecuteQueue(buffers, queue) ==
    IF queue = <<>> THEN buffers
    ELSE ExecuteQueue(ExecuteSubmission(buffers, Head(queue)), Tail(queue))

\* The device works on the oldest submission at a time of its own choosing.
GpuExecute ==
    /\ pc # "aborted"
    /\ device_queue # <<>>
    /\ picker_value_buffers' = ExecuteSubmission(picker_value_buffers, Head(device_queue))
    /\ device_queue' = Tail(device_queue)
    /\ UNCHANGED <<build, login_window, entity, entity_op, workers, engine, pacing, staging_belt, pending_reads, submissions,
                   submitted, picker_value, recording, caller, last_op>>

\* PickerValueBuffer::queue_read_u64 maps the buffer asynchronously; the
\* callback stores the buffer's content into the shared cell once the
\* device is polled.
queue_read_u64(reads, buffer) == reads \cup {buffer}

\* device.poll(Maintain::Wait): all submitted work finishes, then the
\* callbacks of the queued reads run.
DevicePollWait(state) ==
    LET buffers == ExecuteQueue(state.buffers, state.queue)
    IN  [ buffers |-> buffers,
          queue |-> <<>>,
          reads |-> {},
          cell |-> IF state.reads = {} THEN state.cell
                   ELSE buffers[CHOOSE b \in state.reads : TRUE],
          steps |-> Append(state.steps, "poll") ]

\* queue.submit(command_buffers)
QueueSubmit(state, command_buffers) ==
    [state EXCEPT !.queue = Append(@, command_buffers), !.steps = Append(@, "submit")]

\* A wait_for_next_frame that hands out a frame whether or not a surface is set.
WaitForNextFrameUnchecked ==
    /\ Idle
    /\ frame = None
    /\ frames_acquired < MaxFrames
    /\ frame_pacer' = [frame_pacer EXCEPT !.cpu_stage = "begun"]
    /\ last_op' = [Op("wait_for_next_frame") EXCEPT !.paced = limit_framerate]
    /\ frame' = [number |-> frames_acquired + 1]
    /\ frames_acquired' = frames_acquired + 1
    /\ UNCHANGED <<build, login_window, entity, entity_op, workers, engine, limit_framerate, staging_belt, gpu, recording, pc, trace>>

\* the calls wait_for_next_frame makes, in the order it makes them
wait_for_next_frame_steps(has_surface, invalid, has_context, limited) ==
    When(has_surface, << "is_invalid" >>)
    \o When(invalid, << "reconfigure" >>
                     \o When(has_context, << "update_screen_size_textures" >>))
    \o When(limited, << "wait_for_frame" >>)
    \o << "begin_frame_stage" >>
    \o (IF has_surface THEN << "acquire" >> ELSE << "expect" >>)

\* A wait_for_next_frame that reconfigures an invalid surface and leaves
\* the textures of the context at their old size.
WaitForNextFrameStaleTextures ==
    /\ Idle
    /\ frame = None
    /\ frames_acquired < MaxFrames
    /\ LET invalid == surface # None /\ surface.invalid
           configured == IF invalid THEN reconfigure(surface) ELSE surface
       IN  /\ engine_context' = engine_context
           /\ frame_pacer' = [frame_pacer EXCEPT !.cpu_stage = "begun"]
           /\ last_op' = [Op("wait_for_next_frame") EXCEPT
                              !.reconfigured = invalid,
                              !.paced = limit_framerate,
                              !.steps = wait_for_next_frame_steps(
                                            surface # None, invalid, FALSE, limit_framerate)]
           /\ IF configured = None
              THEN /\ pc' = "aborted"
                   /\ UNCHANGED <<surface, frame, frames_acquired>>
              ELSE /\ surface' = configured
                   /\ frame' = [number |-> frames_acquired + 1]
                   /\ frames_acquired' = frames_acquired + 1
                   /\ pc' = pc
    /\ UNCHANGED <<build, login_window, entity, entity_op, workers, previous_surface_texture_format, contexts_built, limit_framerate,
                   staging_belt, gpu, recording, trace>>

\* A wait_for_next_frame that reconfigures the surface whether or not it
\* is invalid.
WaitForNextFrameAlwaysReconfigures ==
    /\ Idle
    /\ frame = None
    /\ frames_acquired < MaxFrames
    /\ LET invalid == surface # None
           configured == IF invalid THEN reconfigure(surface) ELSE surface
       IN  /\ engine_context' =
                  IF invalid /\ engine_context # None
                  THEN [engine_context EXCEPT !.global_context =
                            update_screen_size_textures(@, configured.window_size)]
                  ELSE engine_context
           /\ frame_pacer' = [frame_pacer EXCEPT !.cpu_stage = "begun"]
           /\ last_op' = [Op("wait_for_next_frame") EXCEPT
                              !.reconfigured = invalid,
                              !.paced = limit_framerate,
                              !.steps = wait_for_next_frame_steps(
                                            surface # None, invalid,
                                            engine_context # None, limit_framerate)]
           /\ IF configured = None
              THEN /\ pc' = "aborted"
                   /\ UNCHANGED <<surface, frame, frames_acquired>>
              ELSE /\ surface' = configured
                   /\ frame' = [number |-> frames_acquired + 1]
                   /\ frames_acquired' = frames_acquired + 1
                   /\ pc' = pc
    /\ UNCHANGED <<build, login_window, entity, entity_op, workers, previous_surface_texture_format, contexts_built, limit_framerate,
                   staging_belt, gpu, recording, trace>>

(***************************************************************************)
(* GraphicsEngine::wait_for_next_frame                                     *)
(***************************************************************************)
WaitForNextFrame ==
    /\ Idle
    /\ frame = None
    /\ frames_acquired < MaxFrames
    /\ LET invalid == surface # None /\ surface.invalid
           configured == IF invalid THEN reconfigure(surface) ELSE surface
       IN  /\ engine_context' =
                  IF invalid /\ engine_context # None
                  THEN [engine_context EXCEPT !.global_context =
                            update_screen_size_textures(@, configured.window_size)]
                  ELSE engine_context
           /\ frame_pacer' = [frame_pacer EXCEPT !.cpu_stage = "begun"]
           /\ last_op' = [Op("wait_for_next_frame") EXCEPT
                              !.reconfigured = invalid,
                              !.paced = limit_framerate,
                              !.steps = wait_for_next_frame_steps(
                                            surface # None, invalid,
                                            engine_context # None, limit_framerate)]
           /\ IF configured = None
              THEN \* expect("surface not set") panics
                   /\ pc' = "aborted"
                   /\ UNCHANGED <<surface, frame, frames_acquired>>
              ELSE /\ surface' = configured
                   /\ frame' = [number |-> frames_acquired + 1]
                   /\ frames_acquired' = frames_acquired + 1
                   /\ pc' = pc
    /\ UNCHANGED <<build, login_window, entity, entity_op, workers, previous_surface_texture_format, contexts_built, limit_framerate,
                   staging_belt, gpu, recording, trace>>

\* A render_next_frame that recalls the staging belt before it asserts.
RenderNextFrameRecallsFirst(instr) ==
    /\ Idle
    /\ frame # None
    /\ instruction' = instr
    /\ prepare_command_buffer' = None
    /\ draw_command_buffers' = <<>>
    /\ submitted' = <<>>
    /\ last_op' = Op("render_next_frame")
    /\ staging_belt' = "recalled"
    /\ trace' = <<"recall">>
    /\ pc' = IF instr.point_light_shadow_caster <= NUMBER_OF_POINT_LIGHTS_WITH_SHADOWS
             THEN "prepare_frame_data" ELSE "aborted"
    /\ UNCHANGED <<build, login_window, entity, entity_op, workers, engine, pacing, picker_value_buffers, pending_reads, device_queue,
                   submissions, picker_value, frame, frames_acquired>>

\* A render_next_frame that returns to its caller when the instruction
\* has too many casters.
RenderNextFrameReturnsEarly(instr) ==
    /\ Idle
    /\ frame # None
    /\ instruction' = instr
    /\ prepare_command_buffer' = None
    /\ draw_command_buffers' = <<>>
    /\ submitted' = <<>>
    /\ last_op' = Op("render_next_frame")
    /\ IF instr.point_light_shadow_caster <= NUMBER_OF_POINT_LIGHTS_WITH_SHADOWS
       THEN /\ staging_belt' = "recalled"
            /\ trace' = <<"recall">>
            /\ pc' = "prepare_frame_data"
       ELSE /\ staging_belt' = staging_belt
            /\ trace' = <<>>
            /\ pc' = "idle"
    /\ UNCHANGED <<build, login_window, entity, entity_op, workers, engine, pacing, picker_value_buffers, pending_reads, device_queue,
                   submissions, picker_value, frame, frames_acquired>>

(***************************************************************************)
(* GraphicsEngine::render_next_frame, one action per statement.            *)
(***************************************************************************)
\* the assertion, then staging_belt.recall()
RenderNextFrame(instr) ==
    /\ Idle
    /\ frame # None
    /\ instruction' = instr
    /\ prepare_command_buffer' = None
    /\ draw_command_buffers' = <<>>
    /\ submitted' = <<>>
    /\ last_op' = Op("render_next_frame")
    /\ IF instr.point_light_shadow_caster <= NUMBER_OF_POINT_LIGHTS_WITH_SHADOWS
       THEN /\ staging_belt' = "recalled"
            /\ trace' = <<"recall">>
            /\ pc' = "prepare_frame_data"
       ELSE /\ staging_belt' = staging_belt
            /\ trace' = <<>>
            /\ pc' = "aborted"
    /\ UNCHANGED <<build, login_window, entity, entity_op, workers, engine, pacing, picker_value_buffers, pending_reads, device_queue,
                   submissions, picker_value, frame, frames_acquired>>

PrepareFrameData ==
    /\ pc = "prepare_frame_data"
    /\ IF engine_context = None
       THEN \* engine_context.as_mut().unwrap() panics
            /\ pc' = "aborted"
            /\ UNCHANGED <<prepare_command_buffer, staging_belt, trace>>
       ELSE /\ prepare_command_buffer' =
                   CommandBuffer("prepare",
                       [i \in DOMAIN UploadOrder(feature_debug) |->
                           upload(UploadOrder(feature_debug)[i])])
            /\ staging_belt' = "written"
            /\ trace' = trace \o <<"prepare", "upload">>
            /\ pc' = "draw_frame"
    /\ UNCHANGED <<build, login_window, entity, entity_op, workers, engine, pacing, gpu, instruction, draw_command_buffers, frame,
                   frames_acquired, last_op>>

DrawFrame ==
    /\ pc = "draw_frame"
    /\ draw_command_buffers' = DrawFrameResult(instruction, feature_debug)
    /\ trace' = Append(trace, "draw")
    /\ pc' = "staging_belt_finish"
    /\ UNCHANGED <<build, login_window, entity, entity_op, workers, engine, pacing, staging_belt, gpu, instruction,
                   prepare_command_buffer, frame, frames_acquired, last_op>>

StagingBeltFinish ==
    /\ pc = "staging_belt_finish"
    /\ staging_belt' = "finished"
    /\ trace' = Append(trace, "finish")
    /\ pc' = "queue_picker_value"
    /\ UNCHANGED <<build, login_window, entity, entity_op, workers, engine, pacing, gpu, recording, frame, frames_acquired, last_op>>

QueuePickerValue ==
    /\ pc = "queue_picker_value"
    /\ pending_reads' =
           IF engine_context # None
           THEN queue_read_u64(pending_reads, engine_context.global_context.picker_value_buffer)
           ELSE pending_reads
    /\ trace' = Append(trace, "queue_picker_value")
    /\ pc' = "wait_and_submit_frame"
    /\ UNCHANGED <<build, login_window, entity, entity_op, workers, engine, pacing, staging_belt, picker_value_buffers, device_queue,
                   submissions, submitted, picker_value, recording, frame, frames_acquired,
                   last_op>>

\* render_next_frame binds the tuple draw_frame returned by position
interface_command_buffer == draw_command_buffers[1]
picker_command_buffer == draw_command_buffers[2]
directional_shadow_command_buffer == draw_command_buffers[3]
point_shadow_command_buffer == draw_command_buffers[4]
geometry_command_buffer == draw_command_buffers[5]
screen_command_buffer == draw_command_buffers[6]

SubmittedCommandBuffers ==
    << prepare_command_buffer, interface_command_buffer, picker_command_buffer,
       directional_shadow_command_buffer, point_shadow_command_buffer,
       geometry_command_buffer, screen_command_buffer >>

\* A wait_and_submit_frame that submits before it polls.
submit_and_wait_frame(state, command_buffers) ==
    DevicePollWait(QueueSubmit(state, command_buffers))

\* wait_and_submit_frame: poll, then submit
wait_and_submit_frame(state, command_buffers) ==
    QueueSubmit(DevicePollWait(state), command_buffers)

WaitAndSubmitFrame ==
    /\ pc = "wait_and_submit_frame"
    /\ LET after == wait_and_submit_frame(
                        [ buffers |-> picker_value_buffers, queue |-> device_queue,
                          reads |-> pending_reads, cell |-> picker_value,
                          steps |-> <<>> ],
                        SubmittedCommandBuffers)
       IN  /\ picker_value_buffers' = after.buffers
           /\ device_queue' = after.queue
           /\ pending_reads' = after.reads
           /\ picker_value' = after.cell
           /\ trace' = trace \o after.steps
    /\ submitted' = Append(submitted, SubmittedCommandBuffers)
    /\ submissions' = Append(submissions, engine_context.generation)
    /\ pc' = "present"
    /\ UNCHANGED <<build, login_window, entity, entity_op, workers, engine, pacing, staging_belt, recording, frame, frames_acquired,
                   last_op>>

FramePresent ==
    /\ pc = "present"
    /\ frame' = None
    /\ trace' = Append(trace, "present")
    /\ pc' = "end_frame_stage"
    /\ UNCHANGED <<build, login_window, entity, entity_op, workers, engine, pacing, staging_belt, gpu, recording, frames_acquired,
                   last_op>>

\* A render_next_frame that returns with the timing stage left open.
EndFrameStageSkipped ==
    /\ pc = "end_frame_stage"
    /\ frame_pacer' = frame_pacer
    /\ trace' = Append(trace, "end_frame_stage")
    /\ pc' = "idle"
    /\ instruction' = None
    /\ prepare_command_buffer' = None
    /\ draw_command_buffers' = <<>>
    /\ submitted' = <<>>
    /\ UNCHANGED <<build, login_window, entity, entity_op, workers, engine, limit_framerate, staging_belt, picker_value_buffers,
                   pending_reads, device_queue, submissions, picker_value, frame,
                   frames_acquired, last_op>>

EndFrameStage ==
    /\ pc = "end_frame_stage"
    /\ frame_pacer' = [frame_pacer EXCEPT !.cpu_stage = "ended"]
    /\ trace' = Append(trace, "end_frame_stage")
    /\ pc' = "idle"
    \* the locals of render_next_frame go out of scope
    /\ instruction' = None
    /\ prepare_command_buffer' = None
    /\ draw_command_buffers' = <<>>
    /\ submitted' = <<>>
    /\ UNCHANGED <<build, login_window, entity, entity_op, workers, engine, limit_framerate, staging_belt, picker_value_buffers,
                   pending_reads, device_queue, submissions, picker_value, frame,
                   frames_acquired, last_op>>

RenderSteps ==
    \/ PrepareFrameData
    \/ DrawFrame
    \/ StagingBeltFinish
    \/ QueuePickerValue
    \/ WaitAndSubmitFrame
    \/ FramePresent
    \/ EndFrameStage

(***************************************************************************)
(* prepare_frame_data and draw_frame, one action per call of a task.       *)
(* rayon::in_place_scope runs its closure on the calling thread, runs the  *)
(* spawned tasks on the pool in any interleaving, and returns when the     *)
(* closure and every spawned task are done.  The calling thread is thread  *)
(* 0 and the spawned tasks are numbered in the order of their spawn.       *)
(***************************************************************************)
MainThread == 0
Finished(ts) == \A t \in DOMAIN ts : ts[t] = <<>>
ScopeJoined == in_place = <<>> /\ Finished(tasks)
CallsOf(ts) == UNION {Range(ts[t]) : t \in DOMAIN ts}
NewEncoder == [commands |-> <<>>, writers |-> {}]
Record(encoder, thread, commands) ==
    [commands |-> encoder.commands \o commands, writers |-> encoder.writers \cup {thread}]

\* in_place_scope of prepare_frame_data: the spawns
PrepareSpawn ==
    /\ pc = "prepare_frame_data"
    /\ IF engine_context = None
       THEN \* engine_context.as_mut().unwrap() panics
            /\ pc' = "aborted"
            /\ UNCHANGED <<tasks, in_place, prepared>>
       ELSE /\ tasks' = PrepareTasks(feature_debug)
            /\ in_place' = PrepareInPlace
            /\ prepared' = [c \in CallsOf(PrepareTasks(feature_debug)) \cup Range(PrepareInPlace)
                                |-> <<>>]
            /\ pc' = "prepare_scope"
    /\ UNCHANGED <<build, login_window, entity, entity_op, engine, pacing, staging_belt, gpu, recording, frame,
                   frames_acquired, trace, encoders, last_op>>

\* A prepare task that stages the upload of what it prepared itself.
PrepareTaskUploads(t) ==
    /\ pc = "prepare_scope"
    /\ t \in DOMAIN tasks
    /\ tasks[t] # <<>>
    /\ prepared' = [prepared EXCEPT ![Head(tasks[t])] = Append(@, t)]
    /\ tasks' = [tasks EXCEPT ![t] = Tail(@)]
    /\ staging_belt' = "written"
    /\ UNCHANGED <<build, login_window, entity, entity_op, engine, pacing, gpu, recording, caller, in_place,
                   encoders, last_op>>

\* the next prepare call of the spawned task t
PrepareTask(t) ==
    /\ pc = "prepare_scope"
    /\ t \in DOMAIN tasks
    /\ tasks[t] # <<>>
    /\ prepared' = [prepared EXCEPT ![Head(tasks[t])] = Append(@, t)]
    /\ tasks' = [tasks EXCEPT ![t] = Tail(@)]
    /\ UNCHANGED <<build, login_window, entity, entity_op, engine, pacing, staging_belt, gpu, recording, caller, in_place,
                   encoders, last_op>>

\* the next prepare call of the closure of the scope, on the calling thread
PrepareInPlaceCall ==
    /\ pc = "prepare_scope"
    /\ in_place # <<>>
    /\ prepared' = [prepared EXCEPT ![Head(in_place)] = Append(@, MainThread)]
    /\ in_place' = Tail(in_place)
    /\ UNCHANGED <<build, login_window, entity, entity_op, engine, pacing, staging_belt, gpu, recording, caller, tasks,
                   encoders, last_op>>

\* A scope that returns when its closure is done, with tasks still running.
PrepareJoinDetached ==
    /\ pc = "prepare_scope"
    /\ in_place = <<>>
    /\ encoders' = [e \in {"prepare"} |-> NewEncoder]
    /\ trace' = Append(trace, "prepare")
    /\ pc' = "upload"
    /\ UNCHANGED <<build, login_window, entity, entity_op, engine, pacing, staging_belt, gpu, recording, frame,
                   frames_acquired, tasks, in_place, prepared, last_op>>

\* the scope returns; device.create_command_encoder
PrepareJoin ==
    /\ pc = "prepare_scope"
    /\ ScopeJoined
    /\ encoders' = [e \in {"prepare"} |-> NewEncoder]
    /\ trace' = Append(trace, "prepare")
    /\ pc' = "upload"
    /\ UNCHANGED <<build, login_window, entity, entity_op, engine, pacing, staging_belt, gpu, recording, frame,
                   frames_acquired, tasks, in_place, prepared, last_op>>

\* visitor.upload(component): the next upload, with the staging belt and
\* the encoder of the visitor
Upload ==
    /\ pc = "upload"
    /\ Len(encoders["prepare"].commands) < Len(UploadOrder(feature_debug))
    /\ LET component == UploadOrder(feature_debug)[Len(encoders["prepare"].commands) + 1]
       IN  encoders' = [encoders EXCEPT
                            !["prepare"] = Record(@, MainThread, << upload(component) >>)]
    /\ staging_belt' = "written"
    /\ UNCHANGED <<build, login_window, entity, entity_op, engine, pacing, gpu, recording, caller, tasks, in_place,
                   prepared, last_op>>

\* encoder.finish()
UploadFinish ==
    /\ pc = "upload"
    /\ Len(encoders["prepare"].commands) = Len(UploadOrder(feature_debug))
    /\ prepare_command_buffer' = CommandBuffer("prepare", encoders["prepare"].commands)
    /\ trace' = Append(trace, "upload")
    /\ pc' = "draw_frame"
    /\ UNCHANGED <<build, login_window, entity, entity_op, engine, pacing, staging_belt, gpu, instruction,
                   draw_command_buffers, frame, frames_acquired, workers, last_op>>

\* the passes draw_frame spawns a task for, in the order of the spawns
DrawTasks ==
    << <<"picker">>, <<"interface">>, <<"directional_shadow">>, <<"point_shadow">>,
       <<"geometry">> >>
\* the pass the closure of the scope records itself
DrawInPlace == << "screen" >>
DrawEncoders ==
    {"picker", "interface", "directional_shadow", "point_shadow", "geometry", "screen"}

\* the encoder the closure of a pass borrows: its own
DrawEncoder(pass) == pass

PassCommands(pass, instr, debug) ==
    CASE pass = "picker" -> PickerPass(instr, debug)
      [] pass = "interface" -> InterfacePass(instr)
      [] pass = "directional_shadow" -> DirectionalShadowPass(instr)
      [] pass = "point_shadow" -> PointShadowPass(instr)
      [] pass = "geometry" -> GeometryPass(instr)
      [] pass = "screen" -> ScreenPass(instr, debug)

\* the six create_command_encoder calls and the spawns of the scope
DrawSpawn ==
    /\ pc = "draw_frame"
    /\ encoders' = [e \in DrawEncoders |-> NewEncoder]
    /\ tasks' = DrawTasks
    /\ in_place' = DrawInPlace
    /\ pc' = "draw_scope"
    /\ UNCHANGED <<build, login_window, entity, entity_op, engine, pacing, staging_belt, gpu, recording, frame,
                   frames_acquired, trace, prepared, last_op>>

\* the spawned task t records its pass
DrawTask(t) ==
    /\ pc = "draw_scope"
    /\ t \in DOMAIN tasks
    /\ tasks[t] # <<>>
    /\ LET pass == Head(tasks[t])
       IN  encoders' = [encoders EXCEPT
                            ![DrawEncoder(pass)] =
                                Record(@, t, PassCommands(pass, instruction, feature_debug))]
    /\ tasks' = [tasks EXCEPT ![t] = Tail(@)]
    /\ UNCHANGED <<build, login_window, entity, entity_op, engine, pacing, staging_belt, gpu, recording, caller, in_place,
                   prepared, last_op>>

\* the closure of the scope records the screen pass on the calling thread
DrawScreenPass ==
    /\ pc = "draw_scope"
    /\ in_place # <<>>
    /\ LET pass == Head(in_place)
       IN  encoders' = [encoders EXCEPT
                            ![DrawEncoder(pass)] =
                                Record(@, MainThread,
                                       PassCommands(pass, instruction, feature_debug))]
    /\ in_place' = Tail(in_place)
    /\ UNCHANGED <<build, login_window, entity, entity_op, engine, pacing, staging_belt, gpu, recording, caller, tasks,
                   prepared, last_op>>

\* A scope that returns when the screen pass is recorded, with tasks still
\* running.
DrawJoinDetached ==
    /\ pc = "draw_scope"
    /\ in_place = <<>>
    /\ draw_command_buffers' =
           << CommandBuffer("picker", encoders["picker"].commands),
              CommandBuffer("interface", encoders["interface"].commands),
              CommandBuffer("directional_shadow", encoders["directional_shadow"].commands),
              CommandBuffer("point_shadow", encoders["point_shadow"].commands),
              CommandBuffer("geometry", encoders["geometry"].commands),
              CommandBuffer("screen", encoders["screen"].commands) >>
    /\ trace' = Append(trace, "draw")
    /\ pc' = "staging_belt_finish"
    /\ UNCHANGED <<build, login_window, entity, entity_op, engine, pacing, staging_belt, gpu, instruction,
                   prepare_command_buffer, frame, frames_acquired, workers, last_op>>

\* the scope returns; the six encoder.finish() of the returned tuple
DrawJoin ==
    /\ pc = "draw_scope"
    /\ ScopeJoined
    /\ draw_command_buffers' =
           << CommandBuffer("picker", encoders["picker"].commands),
              CommandBuffer("interface", encoders["interface"].commands),
              CommandBuffer("directional_shadow", encoders["directional_shadow"].commands),
              CommandBuffer("point_shadow", encoders["point_shadow"].commands),
              CommandBuffer("geometry", encoders["geometry"].commands),
              CommandBuffer("screen", encoders["screen"].commands) >>
    /\ trace' = Append(trace, "draw")
    /\ pc' = "staging_belt_finish"
    /\ UNCHANGED <<build, login_window, entity, entity_op, engine, pacing, staging_belt, gpu, instruction,
                   prepare_command_buffer, frame, frames_acquired, workers, last_op>>

(***************************************************************************)
(* The lifecycle specification: the platform hooks with every negotiated   *)
(* format, the shadow detail setter and whole frames, in any order.  The   *)
(* window keeps one size.                                                  *)
(***************************************************************************)
Next ==
    \/ \E settings \in ResumeSettings, limit \in LimitFramerates,
          negotiated \in TextureFormats :
            OnResume(Size(2, 2), settings.triple_buffering, settings.vsync, limit,
                     settings.shadow_detail, settings.texture_sampler_type, negotiated)
    \/ OnSuspended
    \/ \E shadow_detail \in ShadowDetails : SetShadowDetail(shadow_detail)
    \/ WaitForNextFrame
    \/ /\ Idle /\ frame # None
       /\ \E instr \in LifecycleInstructions : RenderNextFrame(instr)
    \/ RenderSteps
    \/ GpuExecute

Spec == Init /\ [][Next]_vars

(***************************************************************************)
(* The draw specification: the first frame of an engine resumed once,      *)
(* with every instruction of DrawInstructions.                             *)
(***************************************************************************)
FirstFrame == frames_acquired = 0

NextDraw ==
    \/ \E inner_size \in InnerSizes :
            OnResume(inner_size, TRUE, TRUE, Unlimited, "Low", "Nearest", "Bgra8UnormSrgb")
    \/ FirstFrame /\ WaitForNextFrame
    \/ /\ Idle /\ frame # None
       /\ \E instr \in DrawInstructions : RenderNextFrame(instr)
    \/ RenderSteps
    \/ GpuExecute

SpecDraw == Init /\ [][NextDraw]_vars

(***************************************************************************)
(* The resize specification: the window changes its size between frames,   *)
(* and the frame rate limit and the sampler are set, with one format and   *)
(* one set of resume settings.                                             *)
(***************************************************************************)
NextResize ==
    \/ \E inner_size \in InnerSizes, limit \in LimitFramerates :
            OnResume(inner_size, TRUE, TRUE, limit, "Low", "Nearest", "Bgra8UnormSrgb")
    \/ OnSuspended
    \/ \E screen_size \in ScreenSizes : OnResize(screen_size)
    \/ \E limit \in LimitFramerates : SetLimitFramerate(limit)
    \/ \E texture_sampler_type \in TextureSamplerTypes :
            SetTextureSamplerType(texture_sampler_type)
    \/ WaitForNextFrame
    \/ /\ Idle /\ frame # None
       /\ \E instr \in LifecycleInstructions : RenderNextFrame(instr)
    \/ RenderSteps
    \/ GpuExecute

SpecResize == Init /\ [][NextResize]_vars

(***************************************************************************)
(* The task specification: the first frame of an engine resumed once,      *)
(* with the prepare and draw stages run call by call under every           *)
(* interleaving of the spawned tasks and the calling thread.               *)
(***************************************************************************)
NextTasks ==
    \/ OnResume(Size(2, 2), TRUE, TRUE, Unlimited, "Low", "Nearest", "Bgra8UnormSrgb")
    \/ FirstFrame /\ WaitForNextFrame
    \/ /\ Idle /\ frame # None
       /\ \E instr \in TaskInstructions : RenderNextFrame(instr)
    \/ PrepareSpawn
    \/ \E t \in DOMAIN tasks : PrepareTask(t)
    \/ PrepareInPlaceCall
    \/ PrepareJoin
    \/ Upload
    \/ UploadFinish
    \/ DrawSpawn
    \/ \E t \in DOMAIN tasks : DrawTask(t)
    \/ DrawScreenPass
    \/ DrawJoin
    \/ StagingBeltFinish
    \/ QueuePickerValue
    \/ WaitAndSubmitFrame
    \/ FramePresent
    \/ EndFrameStage
    \/ GpuExecute

SpecTasks == Init /\ [][NextTasks]_vars

(***************************************************************************)
(* The world (korangar/src/world/entity/mod.rs): one entity, its position  *)
(* and its movement.  Map and PathFinder are arguments of every call.      *)
(* Tiles lie on one row; a map has the tiles with x below its width.       *)
(***************************************************************************)
TilePosition(x, y) == [x |-> x, y |-> y]
TilePositions == {TilePosition(x, 0) : x \in 0..MaxTile}
\* the widest map leaves the last tile outside, the other one the last two
Map(width) == [width |-> width, height |-> 1]
Maps == {Map(MaxTile - 1), Map(MaxTile)}
\* u32 arithmetic on client ticks, with 2^10 standing for 2^32
U32 == 1024
wrapping_sub(a, b) == (a - b + U32) % U32
\* EntityData::movement_speed: client ticks per tile
MovementSpeed == 2
\* the side of a tile in world units, a multiple of every step duration
TileSize == 12
\* the entity data of a packet: a job, a tile, and a destination or none
EntityData(job, position, destination, movement_speed) ==
    [ job |-> job, position |-> position, destination |-> destination,
      movement_speed |-> movement_speed ]
EntityDatas ==
    { EntityData(46, position, destination, MovementSpeed) :
        position \in TilePositions, destination \in TilePositions \cup {None} }

\* Map::get_world_position: the world position of a tile of the map
get_world_position(map, position) ==
    IF position.x < map.width /\ position.y < map.height
    THEN [x |-> TileSize * position.x, z |-> TileSize * position.y]
    ELSE None

\* PathFinder::find_walkable_path: Some of the tiles from start to goal, both
\* included, or None
RECURSIVE straight_path(_, _)
straight_path(start, goal) ==
    LET towards(from, to) == IF from < to THEN from + 1 ELSE IF from > to THEN from - 1 ELSE from
    IN  IF start = goal THEN << start >>
        ELSE << start >>
             \o straight_path(TilePosition(towards(start.x, goal.x),
                                           towards(start.y, goal.y)), goal)

find_walkable_path(map, start, goal) ==
    IF get_world_position(map, start) # None /\ get_world_position(map, goal) # None
    THEN [tiles |-> straight_path(start, goal)]
    ELSE None

\* AnimationState: the action and the tick it started at
AnimationStateNew(client_tick) == [action |-> "idle", start_time |-> client_tick]
idle(animation_state, client_tick) == [action |-> "idle", start_time |-> client_tick]
walk(animation_state, client_tick) == [action |-> "walk", start_time |-> client_tick]
is_walking(animation_state) == animation_state.action = "walk"
\* AnimationState::dead, ::attack, ::pickup: the action starts at the tick
dead(animation_state, client_tick) == [action |-> "dead", start_time |-> client_tick]
attack(animation_state, client_tick) == [action |-> "attack", start_time |-> client_tick]
pickup(animation_state, client_tick) == [action |-> "pickup", start_time |-> client_tick]

Step(arrival_position, arrival_timestamp) ==
    [arrival_position |-> arrival_position, arrival_timestamp |-> arrival_timestamp]
MovementNew(steps, starting_timestamp) ==
    [steps |-> steps, starting_timestamp |-> starting_timestamp]

\* An EntityType::from whose range arms come before the single values.
EntityTypeFromRangesFirst(value) ==
    IF value \in 0..44 \/ value \in 4000..5999 THEN "Player"
    ELSE IF value \in 46..999 \/ value \in 10000..19999 THEN "Npc"
    ELSE IF value \in 1000..3999 \/ value \in 20000..29999 THEN "Monster"
    ELSE IF value = 45 THEN "Warp"
    ELSE IF value = 111 THEN "Hidden"
    ELSE "Npc"

\* impl From<usize> for EntityType: the first arm that matches
EntityTypeFrom(value) ==
    IF value = 45 THEN "Warp"
    ELSE IF value = 111 THEN "Hidden"
    ELSE IF value \in 0..44 \/ value \in 4000..5999 THEN "Player"
    ELSE IF value \in 46..999 \/ value \in 10000..19999 THEN "Npc"
    ELSE IF value \in 1000..3999 \/ value \in 20000..29999 THEN "Monster"
    ELSE "Npc"

\* Option: Some of a value that is not a record
Some(value) == [some |-> value]

SOUND_COOLDOWN_DURATION == 200
\* SoundState::default
SoundStateDefault == [previous_key |-> None, last_played_at |-> None]
\* the sound effect keys, and ticks around the cooldown and around the wrap
SoundEffectKeys == 1..MaxKey
SoundTicks ==
    { 0, 1, SOUND_COOLDOWN_DURATION - 1, SOUND_COOLDOWN_DURATION,
      SOUND_COOLDOWN_DURATION + 1, U32 - SOUND_COOLDOWN_DURATION, U32 - 1 }

\* SoundState::update: the condition of the play
should_play(sound_state, sound_effect_key, client_tick) ==
    IF /\ Some(sound_effect_key) = sound_state.previous_key
       /\ sound_state.last_played_at # None
    THEN wrapping_sub(client_tick, sound_state.last_played_at.some)
             >= SOUND_COOLDOWN_DURATION
    ELSE TRUE

\* A SoundState::update that remembers the tick of a sound it did not play.
SoundStateUpdateRemembersAll(sound_state, sound_effect_key, client_tick) ==
    IF should_play(sound_state, sound_effect_key, client_tick)
    THEN [previous_key |-> Some(sound_effect_key), last_played_at |-> Some(client_tick)]
    ELSE [sound_state EXCEPT !.last_played_at = Some(client_tick)]

\* SoundState::update
SoundStateUpdate(sound_state, sound_effect_key, client_tick) ==
    IF should_play(sound_state, sound_effect_key, client_tick)
    THEN [previous_key |-> Some(sound_effect_key), last_played_at |-> Some(client_tick)]
    ELSE sound_state

\* Common::new
CommonNew(entity_data, tile_position, world_position, client_tick) ==
    [ job_id |-> entity_data.job,
      entity_type |-> EntityTypeFrom(entity_data.job),
      sound_state |-> SoundStateDefault,
      tile_position |-> tile_position,
      world_position |-> world_position,
      direction |-> << 0, 0 >>,
      movement_speed |-> entity_data.movement_speed,
      active_movement |-> None,
      animation_state |-> AnimationStateNew(client_tick),
      stopped_moving |-> FALSE ]

\* A set_position that drops the movement before it looks the tile up.
set_position_drops_movement(common, map, position, client_tick) ==
    LET world_position == get_world_position(map, position)
    IN  IF world_position = None
        THEN [common EXCEPT !.active_movement = None]
        ELSE [common EXCEPT !.tile_position = position,
                            !.world_position = world_position,
                            !.active_movement = None,
                            !.animation_state = idle(@, client_tick)]

\* Common::set_position
set_position(common, map, position, client_tick) ==
    LET world_position == get_world_position(map, position)
    IN  IF world_position = None
        THEN common
        ELSE [common EXCEPT !.tile_position = position,
                            !.world_position = world_position,
                            !.active_movement = None,
                            !.animation_state = idle(@, client_tick)]

\* Common::move_from_to: the duration of a move from a tile to the next.
\* (movement_speed as f32 * 1.4) as u32 is the floor of 14 tenths of it.
step_speed(position, step, movement_speed) ==
    IF position.x = step.x \/ position.y = step.y
    THEN movement_speed
    ELSE (14 * movement_speed) \div 10

\* Common::move_from_to: the steps of the path.  The sum is a u32 sum: it
\* wraps in a build without overflow checks, and a build with them panics
\* where it would wrap.
path_steps(path, start, starting_timestamp, movement_speed) ==
    LET position[i \in DOMAIN path] == IF i = 1 THEN start ELSE path[i]
        timestamp[i \in DOMAIN path] ==
            IF i = 1 THEN starting_timestamp
            ELSE (timestamp[i - 1] + step_speed(position[i - 1], path[i], movement_speed))
                     % U32
    IN  [i \in DOMAIN path |-> Step(position[i], timestamp[i])]

\* A move_from_to that stops the entity when it finds no path.
move_from_to_stops_without_path(common, map, start, goal, starting_timestamp) ==
    LET path == find_walkable_path(map, start, goal)
    IN  IF path = None THEN [common EXCEPT !.active_movement = None]
        ELSE IF Len(path.tiles) <= 1 THEN common
        ELSE [common EXCEPT
                  !.active_movement =
                      MovementNew(path_steps(path.tiles, start, starting_timestamp,
                                             common.movement_speed),
                                  starting_timestamp),
                  !.animation_state =
                      IF is_walking(@) THEN @ ELSE walk(@, starting_timestamp)]

move_from_to(common, map, start, goal, starting_timestamp) ==
    LET path == find_walkable_path(map, start, goal)
    IN  IF path = None THEN common
        ELSE IF Len(path.tiles) <= 1 THEN common
        ELSE [common EXCEPT
                  !.active_movement =
                      MovementNew(path_steps(path.tiles, start, starting_timestamp,
                                             common.movement_speed),
                                  starting_timestamp),
                  !.animation_state =
                      IF is_walking(@) THEN @ ELSE walk(@, starting_timestamp)]

\* the while loop of update_movement: the last step reached before the tick
RECURSIVE last_step_index(_, _, _)
last_step_index(steps, index, client_tick) ==
    IF steps[index + 1].arrival_timestamp < client_tick
    THEN last_step_index(steps, index + 1, client_tick)
    ELSE index

\* An update_movement that does not clamp the tick to the arrival of the step.
update_movement_unclamped(common, map, client_tick) ==
    LET cleared == [common EXCEPT !.stopped_moving = FALSE]
        active_movement == common.active_movement
    IN  IF active_movement = None THEN cleared
        ELSE LET taken == [cleared EXCEPT !.active_movement = None]
                 steps == active_movement.steps
                 last == steps[Len(steps)]
             IN  IF client_tick > last.arrival_timestamp
                 THEN [set_position(taken, map, last.arrival_position, client_tick)
                           EXCEPT !.stopped_moving = TRUE]
                 ELSE LET index == last_step_index(steps, 1, client_tick)
                          last_step == steps[index]
                          next_step == steps[index + 1]
                          turned ==
                              [taken EXCEPT
                                   !.tile_position = next_step.arrival_position,
                                   !.direction =
                                       << last_step.arrival_position.x
                                              - next_step.arrival_position.x,
                                          last_step.arrival_position.y
                                              - next_step.arrival_position.y >>,
                                   !.active_movement = active_movement]
                          last_step_position ==
                              get_world_position(map, last_step.arrival_position)
                          next_step_position ==
                              get_world_position(map, next_step.arrival_position)
                          clamped_tick == client_tick
                          total ==
                              wrapping_sub(next_step.arrival_timestamp,
                                           last_step.arrival_timestamp)
                          offset == clamped_tick - last_step.arrival_timestamp
                      IN  IF last_step_position = None \/ next_step_position = None
                          THEN turned
                          ELSE [turned EXCEPT
                                    !.world_position =
                                        [x |-> last_step_position.x
                                                   + ((next_step_position.x
                                                           - last_step_position.x) * offset)
                                                         \div total,
                                         z |-> last_step_position.z
                                                   + ((next_step_position.z
                                                           - last_step_position.z) * offset)
                                                         \div total]]

\* Common::update_movement
update_movement(common, map, client_tick) ==
    LET cleared == [common EXCEPT !.stopped_moving = FALSE]
        active_movement == common.active_movement
    IN  IF active_movement = None THEN cleared
        ELSE LET taken == [cleared EXCEPT !.active_movement = None]
                 steps == active_movement.steps
                 last == steps[Len(steps)]
             IN  IF client_tick > last.arrival_timestamp
                 THEN [set_position(taken, map, last.arrival_position, client_tick)
                           EXCEPT !.stopped_moving = TRUE]
                 ELSE LET index == last_step_index(steps, 1, client_tick)
                          last_step == steps[index]
                          next_step == steps[index + 1]
                          turned ==
                              [taken EXCEPT
                                   !.tile_position = next_step.arrival_position,
                                   !.direction =
                                       << last_step.arrival_position.x
                                              - next_step.arrival_position.x,
                                          last_step.arrival_position.y
                                              - next_step.arrival_position.y >>,
                                   !.active_movement = active_movement]
                          last_step_position ==
                              get_world_position(map, last_step.arrival_position)
                          next_step_position ==
                              get_world_position(map, next_step.arrival_position)
                          clamped_tick ==
                              IF last_step.arrival_timestamp >= client_tick
                              THEN last_step.arrival_timestamp ELSE client_tick
                          total ==
                              wrapping_sub(next_step.arrival_timestamp,
                                           last_step.arrival_timestamp)
                          offset == clamped_tick - last_step.arrival_timestamp
                      IN  IF last_step_position = None \/ next_step_position = None
                          THEN turned
                          ELSE [turned EXCEPT
                                    !.world_position =
                                        [x |-> last_step_position.x
                                                   + ((next_step_position.x
                                                           - last_step_position.x) * offset)
                                                         \div total,
                                         z |-> last_step_position.z
                                                   + ((next_step_position.z
                                                           - last_step_position.z) * offset)
                                                         \div total]]

\* AnimationData, as far as update asks it: whether the animation is over and
\* the event of the frame, a sound effect key or none
AnimationDatas ==
    [ is_animation_over : BOOLEAN,
      event : {None} \cup {Some(key) : key \in SoundEffectKeys} ]

\* Common::update
update(common, map, animation_data, client_tick) ==
    LET moved == update_movement(common, map, client_tick)
    IN  IF animation_data = None THEN moved
        ELSE [moved EXCEPT
                  !.animation_state =
                      IF /\ animation_data.is_animation_over
                         /\ @.action \in {"attack", "pickup"}
                      THEN idle(@, client_tick) ELSE @,
                  !.sound_state =
                      IF animation_data.event # None
                      THEN SoundStateUpdate(@, animation_data.event.some, client_tick)
                      ELSE @]

EntityOp(name, map, position, destination, client_tick, returned) ==
    [ op |-> name, client_tick |-> client_tick, map |-> map, position |-> position,
      destination |-> destination, returned |-> returned, animation_data |-> None,
      played |-> None ]

\* the client tick does not run backwards
Later == entity_op.client_tick..MaxTick

\* An Npc::new that places the entity without looking at the bounds.
NpcNewUnchecked(map, entity_data, client_tick) ==
    /\ entity = None
    /\ LET tile_position == entity_data.position
           position == get_world_position(map, tile_position)
           common == CommonNew(entity_data, tile_position, position, client_tick)
           npc == IF entity_data.destination # None
                  THEN move_from_to(common, map, tile_position, entity_data.destination,
                                    client_tick)
                  ELSE common
       IN  /\ entity' = npc
           /\ entity_op' = EntityOp("npc_new", map, tile_position, entity_data.destination,
                                    client_tick, npc)
    /\ UNCHANGED <<build, login_window, engine, pacing, staging_belt, gpu, recording, caller, workers, last_op>>

\* Npc::new
NpcNew(map, entity_data, client_tick) ==
    /\ entity = None
    /\ LET tile_position == entity_data.position
           position == get_world_position(map, tile_position)
           common == CommonNew(entity_data, tile_position, position, client_tick)
           npc == IF position = None THEN None
                  ELSE IF entity_data.destination # None
                  THEN move_from_to(common, map, tile_position, entity_data.destination,
                                    client_tick)
                  ELSE common
       IN  /\ entity' = npc
           /\ entity_op' = EntityOp("npc_new", map, tile_position, entity_data.destination,
                                    client_tick, npc)
    /\ UNCHANGED <<build, login_window, engine, pacing, staging_belt, gpu, recording, caller, workers, last_op>>

\* Entity::set_position
EntitySetPosition(map, position, client_tick) ==
    /\ entity # None
    /\ entity' = set_position(entity, map, position, client_tick)
    /\ entity_op' = EntityOp("set_position", map, position, None, client_tick, None)
    /\ UNCHANGED <<build, login_window, engine, pacing, staging_belt, gpu, recording, caller, workers, last_op>>

\* Entity::move_from_to
EntityMoveFromTo(map, from, to, starting_timestamp) ==
    /\ entity # None
    /\ entity' = move_from_to(entity, map, from, to, starting_timestamp)
    /\ entity_op' = EntityOp("move_from_to", map, from, to, starting_timestamp, None)
    /\ UNCHANGED <<build, login_window, engine, pacing, staging_belt, gpu, recording, caller, workers, last_op>>

\* Entity::stop_movement
EntityStopMovement ==
    /\ entity # None
    /\ entity' = [entity EXCEPT !.active_movement = None]
    /\ entity_op' = EntityOp("stop_movement", None, None, None, entity_op.client_tick, None)
    /\ UNCHANGED <<build, login_window, engine, pacing, staging_belt, gpu, recording, caller, workers, last_op>>

\* Entity::set_dead, set_idle, set_pickup, set_attack: each starts its
\* animation and touches nothing else
EntitySetAnimation(name, client_tick) ==
    /\ entity # None
    /\ entity' =
           [entity EXCEPT
                !.animation_state =
                    CASE name = "set_dead" -> dead(@, client_tick)
                      [] name = "set_idle" -> idle(@, client_tick)
                      [] name = "set_pickup" -> pickup(@, client_tick)
                      [] name = "set_attack" -> attack(@, client_tick)]
    /\ entity_op' = EntityOp(name, None, None, None, client_tick, None)
    /\ UNCHANGED <<build, login_window, engine, pacing, staging_belt, gpu, recording, caller,
                   workers, last_op>>

\* Entity::update; played is the key handed to the audio engine, if any
EntityUpdate(map, animation_data, client_tick) ==
    /\ entity # None
    /\ entity' = update(entity, map, animation_data, client_tick)
    /\ entity_op' =
           [ EntityOp("update", map, None, None, client_tick, None) EXCEPT
                 !.animation_data = animation_data,
                 !.played =
                     IF /\ animation_data # None
                        /\ animation_data.event # None
                        /\ should_play(entity.sound_state, animation_data.event.some,
                                       client_tick)
                     THEN animation_data.event ELSE None ]
    /\ UNCHANGED <<build, login_window, engine, pacing, staging_belt, gpu, recording, caller, workers, last_op>>

(***************************************************************************)
(* The entity specification: one entity is created from a packet, moved,   *)
(* placed and updated, on either map, as the client tick advances.  The    *)
(* build only decides whether an ignored position is logged; the release   *)
(* desktop build is followed.                                              *)
(***************************************************************************)
NextEntity ==
    \/ /\ ~target_os_android /\ ~feature_debug /\ entity = None
       /\ \E map \in Maps, entity_data \in EntityDatas, client_tick \in Later :
              NpcNew(map, entity_data, client_tick)
    \/ /\ ~target_os_android /\ ~feature_debug /\ entity # None
       /\ \E map \in Maps, position \in TilePositions, client_tick \in Later :
              EntitySetPosition(map, position, client_tick)
    \/ /\ ~target_os_android /\ ~feature_debug /\ entity # None
       /\ \E map \in Maps, to \in TilePositions, client_tick \in Later :
              EntityMoveFromTo(map, entity.tile_position, to, client_tick)
    \/ ~target_os_android /\ ~feature_debug /\ EntityStopMovement
    \/ /\ ~target_os_android /\ ~feature_debug /\ entity # None
       /\ \E map \in Maps, client_tick \in Later : EntityUpdate(map, None, client_tick)

SpecEntity == Init /\ [][NextEntity]_vars

(***************************************************************************)
(* The movement specification: an entity walks on a map of two rows, over  *)
(* orthogonal and diagonal moves, with client ticks on both sides of the   *)
(* wrap of the tick; tiles of the last column lie outside the map.         *)
(***************************************************************************)
\* the goals: the corner, a diagonal neighbour, the far tile, a tile outside
MoveTiles ==
    { TilePosition(0, 0), TilePosition(1, 1), TilePosition(MaxTile - 1, 1),
      TilePosition(MaxTile, 0) }
MoveMap == [width |-> MaxTile, height |-> 2]
\* a map that ends one column before it
NarrowMap == [width |-> MaxTile - 1, height |-> 2]
\* a movement speed whose diagonal duration differs from it
MoveSpeed == 3
MoveTicks == {(U32 - MaxTick + i) % U32 : i \in 0..(2 * MaxTick)}
StartTicks == {U32 - MaxTick, 2}

NextMove ==
    \/ /\ ~target_os_android /\ ~feature_debug /\ entity = None
       /\ \E destination \in {None, TilePosition(1, 1)} :
              NpcNew(MoveMap, EntityData(46, TilePosition(0, 0), destination, MoveSpeed),
                     U32 - MaxTick)
    \/ /\ ~target_os_android /\ ~feature_debug /\ entity # None
       /\ \E to \in MoveTiles, starting_timestamp \in StartTicks :
              EntityMoveFromTo(MoveMap, entity.tile_position, to, starting_timestamp)
    \/ /\ ~target_os_android /\ ~feature_debug /\ entity # None
       /\ \E map \in {MoveMap, NarrowMap}, client_tick \in MoveTicks :
              EntityUpdate(map, None, client_tick)

SpecMove == Init /\ [][NextMove]_vars

(***************************************************************************)
(* The animation specification: an entity on one row of tiles walks, is    *)
(* placed, dies, attacks and picks up, and is updated with its animation   *)
(* data loaded or not, as the client tick advances.                        *)
(***************************************************************************)
NextDead ==
    \/ /\ ~target_os_android /\ ~feature_debug /\ entity = None
       /\ \E destination \in {None, TilePosition(1, 0)} :
              NpcNew(Map(MaxTile), EntityData(1000, TilePosition(0, 0), destination,
                                              MovementSpeed), 0)
    \/ /\ ~target_os_android /\ ~feature_debug /\ entity # None
       /\ \E name \in {"set_dead", "set_idle", "set_pickup", "set_attack"},
             client_tick \in Later :
              EntitySetAnimation(name, client_tick)
    \/ /\ ~target_os_android /\ ~feature_debug /\ entity # None
       /\ \E position \in TilePositions, client_tick \in Later :
              EntitySetPosition(Map(MaxTile), position, client_tick)
    \/ /\ ~target_os_android /\ ~feature_debug /\ entity # None
       /\ \E to \in TilePositions, client_tick \in Later :
              EntityMoveFromTo(Map(MaxTile), entity.tile_position, to, client_tick)
    \/ /\ ~target_os_android /\ ~feature_debug /\ entity # None
       /\ \E animation_data \in {None} \cup {data \in AnimationDatas : data.event = None},
             client_tick \in Later :
              EntityUpdate(Map(MaxTile), animation_data, client_tick)

SpecDead == Init /\ [][NextDead]_vars

(***************************************************************************)
(* The sound specification: an entity of any job stands on its tile and    *)
(* is updated with animation data whose frames carry sound events, at      *)
(* ticks on both sides of the cooldown and of the wrap of the tick.        *)
(***************************************************************************)
\* job ids on both sides of every bound of EntityType::from
JobIds ==
    { 0, 44, 45, 46, 110, 111, 112, 999, 1000, 3999, 4000, 5999, 6000, 9999,
      10000, 19999, 20000, 29999, 30000 }

NextSound ==
    \/ /\ ~target_os_android /\ ~feature_debug /\ entity = None
       /\ \E job \in JobIds :
              NpcNew(Map(MaxTile), EntityData(job, TilePosition(0, 0), None, MovementSpeed), 0)
    \/ /\ ~target_os_android /\ ~feature_debug /\ entity # None
       /\ \E animation_data \in AnimationDatas, client_tick \in SoundTicks :
              EntityUpdate(Map(MaxTile), animation_data, client_tick)

SpecSound == Init /\ [][NextSound]_vars

(***************************************************************************)
(* The login window (src/interface/windows/account/login.rs): the cells    *)
(* of the username and of the password shared by the two input fields,     *)
(* and the closures the fields call when their content is confirmed.       *)
(***************************************************************************)
\* the texts of a field of the window; "" is the empty text
Texts == {"", "a", "b", "c"}
LoginSettings == [username : Texts, password : Texts]

\* the closure of the username field
username_action(username) ==
    IF username # ""
    THEN [action |-> "FocusNext", mode |-> "FocusNext"]
    ELSE None

\* A password closure that looks at the password before the username.
password_action_password_first(username, password) ==
    IF password = "" THEN None
    ELSE IF username = "" THEN [action |-> "FocusNext", mode |-> "FocusPrevious"]
    ELSE [action |-> "Event", event |-> "LogIn", username |-> username,
          password |-> password]

\* the closure of the password field: the guarded arm comes first
password_action(username, password) ==
    IF username = "" THEN [action |-> "FocusNext", mode |-> "FocusPrevious"]
    ELSE IF password = "" THEN None
    ELSE [action |-> "Event", event |-> "LogIn", username |-> username,
          password |-> password]

\* LoginWindow::to_window: the cells start as the login settings
LoginWindowToWindow(login_settings) ==
    /\ login_window = None
    /\ login_window' = [ username |-> login_settings.username,
                         password |-> login_settings.password,
                         confirmed |-> "none", returned |-> None ]
    /\ UNCHANGED <<build, engine, pacing, staging_belt, gpu, recording, caller, workers,
                   last_op, entity, entity_op>>

\* an input field changes the text of its cell
InputFieldEdit(field, text) ==
    /\ login_window # None
    /\ login_window' = [login_window EXCEPT ![field] = text, !.confirmed = "none",
                                            !.returned = None]
    /\ UNCHANGED <<build, engine, pacing, staging_belt, gpu, recording, caller, workers,
                   last_op, entity, entity_op>>

\* an input field is confirmed: it calls its closure
InputFieldConfirm(field) ==
    /\ login_window # None
    /\ login_window' =
           [login_window EXCEPT
                !.confirmed = field,
                !.returned =
                    IF field = "username" THEN username_action(login_window.username)
                    ELSE password_action(login_window.username, login_window.password)]
    /\ UNCHANGED <<build, engine, pacing, staging_belt, gpu, recording, caller, workers,
                   last_op, entity, entity_op>>

NextLogin ==
    \/ \E login_settings \in LoginSettings : LoginWindowToWindow(login_settings)
    \/ \E field \in {"username", "password"}, text \in Texts : InputFieldEdit(field, text)
    \/ \E field \in {"username", "password"} : InputFieldConfirm(field)

SpecLogin == Init /\ [][NextLogin]_vars

(***************************************************************************)
(* Properties.                                                             *)
(***************************************************************************)
Names(command_buffers) == [i \in DOMAIN command_buffers |-> command_buffers[i].name]

\* the frame in progress has been submitted
Submitted == pc \in {"present", "end_frame_stage"}

\* the step is a call of render_next_frame
RenderCalled == instruction = None /\ instruction' # None

TooManyCasters(instr) ==
    instr.point_light_shadow_caster > NUMBER_OF_POINT_LIGHTS_WITH_SHADOWS

\* C1: a frame whose instruction has at most
\* NUMBER_OF_POINT_LIGHTS_WITH_SHADOWS casters is submitted as one
\* submission of exactly seven command buffers, in the order prepare,
\* interface, picker, directional shadow, point shadow, geometry, screen.
C1_SevenBuffersInDocumentedOrder ==
    Submitted =>
        /\ Len(submitted) = 1
        /\ Names(submitted[1]) =
               << "prepare", "interface", "picker", "directional_shadow",
                  "point_shadow", "geometry", "screen" >>

\* C2: a call of render_next_frame with more casters than
\* NUMBER_OF_POINT_LIGHTS_WITH_SHADOWS aborts and has done nothing: no
\* staging belt recall, no prepare or upload, no encoder, no picker read,
\* no submission, no present, and the timing stage stays open.
C2_TooManyCastersAbortFirst ==
    [][ (RenderCalled /\ TooManyCasters(instruction')) =>
            /\ pc' = "aborted"
            /\ trace' = <<>>
            /\ prepare_command_buffer' = None
            /\ draw_command_buffers' = <<>>
            /\ submitted' = <<>>
            /\ UNCHANGED <<staging_belt, pending_reads, device_queue, submissions,
                           picker_value_buffers, picker_value, frame, frame_pacer>> ]_vars

C2_Witness ==
    /\ pc = "aborted"
    /\ instruction # None
    /\ TooManyCasters(instruction)
    /\ frame_pacer.cpu_stage = "begun"

\* C3 as stated: the picker value published during frame N (N >= 2) is
\* the texel the picker pass of frame N-1 copied.
C3_PublishedTexelOfPreviousFrame ==
    (pc = "present" /\ frame.number >= 2) => picker_value.frame = frame.number - 1

\* C3 as amended: the picker value published during frame N is never the
\* texel of frame N; it is the texel frame N-1 copied when frame N-1 was
\* submitted with the EngineContext frame N is submitted with, and the
\* initial content of the context's picker value buffer otherwise (the
\* first frame, or the first frame of a rebuilt context).
C3_PublishedTexelIsOfEarlierFrame ==
    pc = "present" =>
        /\ picker_value.frame # frame.number
        /\ IF /\ frame.number >= 2
              /\ submissions[frame.number - 1] = submissions[frame.number]
           THEN picker_value.frame = frame.number - 1
           ELSE picker_value = NoTexel

C3_Witness ==
    /\ pc = "present"
    /\ frame.number >= 2
    /\ picker_value.frame = frame.number - 1

\* C4: an on_resume that negotiates the format the EngineContext was
\* built with, or that finds the surface in place, leaves the
\* EngineContext as the first on_resume built it.
C4_SameFormatResumeKeepsContext ==
    [][ ( /\ last_op'.op = "on_resume"
          /\ previous_surface_texture_format # NoFormat
          /\ (surface = None => surface'.format = previous_surface_texture_format) ) =>
            /\ engine_context' = engine_context
            /\ contexts_built' = contexts_built ]_vars

C4_Witness ==
    /\ last_op.op = "on_resume"
    /\ last_op.created_surface
    /\ ~last_op.rebuilt
    /\ contexts_built = 1
    /\ engine_context.generation = 1

\* the step is an on_resume that negotiates a format other than the
\* recorded one
FormatChanges ==
    /\ surface = None
    /\ surface' # None
    /\ surface'.format # previous_surface_texture_format

\* C5: an on_resume that negotiates a format other than the recorded one
\* (the first build included) records the new format and installs an
\* EngineContext all of whose pass contexts and drawers, and whose global
\* context, are constructed in this call against the new format.
C5_FormatChangeRebuildsEverything ==
    [][ FormatChanges =>
            /\ previous_surface_texture_format' = surface'.format
            /\ engine_context' # None
            /\ engine_context'.generation = contexts_built'
            /\ contexts_built' > contexts_built
            /\ engine_context'.global_context.surface_texture_format = surface'.format
            /\ engine_context'.global_context.picker_value_buffer = contexts_built'
            /\ DOMAIN engine_context'.components = Components(feature_debug)
            /\ \A c \in Components(feature_debug) :
                   /\ engine_context'.components[c] = contexts_built'
                   /\ engine_context # None =>
                          engine_context'.components[c] # engine_context.components[c] ]_vars

C5_Witness ==
    /\ last_op.op = "on_resume"
    /\ last_op.rebuilt
    /\ contexts_built = 2
    /\ \A c \in Components(feature_debug) : engine_context.components[c] = 2

ScreenCommands == draw_command_buffers[6].commands
IsLayer(command) == command.target \in {"screen_rectangle_drawer", "screen_overlay_drawer"}
Recorded == draw_command_buffers # <<>>

\* C6: the rectangle layers of the screen pass are drawn in the order
\* Bottom, Middle, the overlay if and only if show_interface, Top, each
\* layer with its own list of the instruction.
C6_LayerOrder ==
    Recorded =>
        /\ draw_command_buffers[6].name = "screen"
        /\ SelectSeq(ScreenCommands, IsLayer) =
               << draw_layer("screen_rectangle_drawer", "Bottom",
                             instruction.bottom_layer_rectangles),
                  draw_layer("screen_rectangle_drawer", "Middle",
                             instruction.middle_layer_rectangles) >>
               \o (IF instruction.show_interface
                   THEN << draw("screen_overlay_drawer") >> ELSE <<>>)
               \o << draw_layer("screen_rectangle_drawer", "Top",
                                instruction.top_layer_rectangles) >>

C6_Witness ==
    /\ Recorded
    /\ ~instruction.show_interface
    /\ instruction.bottom_layer_rectangles = <<2, 1>>
    /\ instruction.middle_layer_rectangles = <<>>
    /\ instruction.top_layer_rectangles = <<2, 1>>

LightFlags == {"show_ambient_light", "show_directional_light", "show_point_lights"}
LightDrawer(flag) ==
    CASE flag = "show_ambient_light" -> "screen_ambient_light_drawer"
      [] flag = "show_directional_light" -> "screen_directional_light_drawer"
      [] flag = "show_point_lights" -> "screen_point_light_drawer"
\* the lighting flags of the instruction that are turned off
FlagsOff ==
    IF feature_debug THEN {f \in LightFlags : ~instruction.render_settings[f]} ELSE {}
IsLitBy(command) == command.target \notin {LightDrawer(f) : f \in FlagsOff}
AllLightsOn ==
    IF feature_debug THEN [instruction EXCEPT !.render_settings = AllLights] ELSE instruction

\* C7: the screen pass of a frame is the screen pass of the same
\* instruction with every lighting flag on, less the draw call of the
\* drawer of every flag that is off; that of the water light drawer is
\* always in it.
C7_FlagOmitsItsLightOnly ==
    Recorded =>
        /\ ScreenCommands = SelectSeq(ScreenPass(AllLightsOn, feature_debug), IsLitBy)
        /\ \A f \in LightFlags :
               (draw(LightDrawer(f)) \in {ScreenCommands[i] : i \in DOMAIN ScreenCommands})
                   <=> f \notin FlagsOff
        /\ Len(SelectSeq(ScreenCommands,
                         LAMBDA c : c = draw("screen_water_light_drawer"))) = 1

C7_Witness ==
    /\ Recorded
    /\ FlagsOff = {"show_point_lights"}

\* C8: set_shadow_detail leaves the surface, the recorded format, the
\* EngineContext's identity, every pass context and drawer, and every
\* part of the global context but the shadow size textures as they were;
\* without an EngineContext it changes nothing.
C8_ShadowDetailResizesInPlace ==
    [][ last_op'.op = "set_shadow_detail" =>
            /\ UNCHANGED <<surface, previous_surface_texture_format, contexts_built>>
            /\ engine_context = None => engine_context' = None
            /\ engine_context # None =>
                   /\ engine_context' # None
                   /\ engine_context'.generation = engine_context.generation
                   /\ engine_context'.components = engine_context.components
                   /\ [engine_context'.global_context EXCEPT !.shadow_size_textures = "Low"]
                          = [engine_context.global_context EXCEPT !.shadow_size_textures = "Low"]
      ]_vars

C8_Witness ==
    /\ last_op.op = "set_shadow_detail"
    /\ engine_context # None
    /\ engine_context.global_context.shadow_size_textures = "Ultra"
    /\ engine_context.global_context.texture_sampler = "Nearest"

\* the step is a call of wait_for_next_frame
WaitCalled == pc = "idle" /\ frame = None /\ last_op'.op = "wait_for_next_frame"

\* C9: wait_for_next_frame aborts and returns no frame when no surface is
\* set, and returns the next frame of the surface otherwise.
C9_NoSurfaceNoFrame ==
    [][ WaitCalled =>
            IF surface = None
            THEN pc' = "aborted" /\ frame' = None
            ELSE pc' = "idle" /\ frame' = [number |-> frames_acquired + 1] ]_vars

C9_Witness ==
    /\ pc = "aborted"
    /\ last_op.op = "wait_for_next_frame"
    /\ surface = None
    /\ engine_context # None

\* C10: on_suspended drops the surface on Android and leaves it elsewhere,
\* and keeps the EngineContext and the recorded format; the on_resume
\* after it does not rebuild the context for the same format.
C10_SuspendKeepsContext ==
    [][ /\ last_op'.op = "on_suspended" =>
            /\ surface' = IF target_os_android THEN None ELSE surface
            /\ UNCHANGED <<engine_context, previous_surface_texture_format, contexts_built>>
        /\ ( /\ last_op.op = "on_suspended"
             /\ last_op'.op = "on_resume"
             /\ (surface = None => surface'.format = previous_surface_texture_format) ) =>
               UNCHANGED <<engine_context, previous_surface_texture_format, contexts_built>>
      ]_vars

C10_Witness ==
    /\ last_op.op = "on_suspended"
    /\ surface = None
    /\ engine_context # None
    /\ previous_surface_texture_format # NoFormat

WaitOrder ==
    << "is_invalid", "reconfigure", "update_screen_size_textures", "wait_for_frame",
       "begin_frame_stage", "acquire", "expect" >>

\* C20: wait_for_next_frame checks the surface, reconfigures it and then
\* updates the screen size textures only when it is invalid, then waits
\* for the pacer only when the frame rate is limited, then begins the
\* timing stage, then acquires; the frame it returns is of a surface that
\* is not invalid, and a valid surface is left as it is.
C20_WaitStepsInOrder ==
    [][ WaitCalled =>
            LET steps == last_op'.steps
                invalid == surface # None /\ surface.invalid
            IN  /\ steps = SelectSeq(WaitOrder, LAMBDA n : n \in Range(steps))
                /\ ("is_invalid" \in Range(steps)) <=> (surface # None)
                /\ ("reconfigure" \in Range(steps)) <=> invalid
                /\ ("update_screen_size_textures" \in Range(steps))
                       <=> (invalid /\ engine_context # None)
                /\ ("wait_for_frame" \in Range(steps)) <=> limit_framerate
                /\ "begin_frame_stage" \in Range(steps)
                /\ frame_pacer'.cpu_stage = "begun"
                /\ (frame' # None) <=> ("acquire" \in Range(steps))
                /\ frame' # None => ~surface'.invalid
                /\ (surface # None /\ ~surface.invalid) =>
                       /\ surface' = surface
                       /\ engine_context' = engine_context
                       /\ ~last_op'.reconfigured ]_vars

C20_Witness ==
    /\ last_op.op = "wait_for_next_frame"
    /\ last_op.steps =
           << "is_invalid", "reconfigure", "update_screen_size_textures",
              "wait_for_frame", "begin_frame_stage", "acquire" >>
    /\ frame # None
    /\ ~surface.invalid

PickerCommands == draw_command_buffers[1].commands
IsCopyCommand(command) == command.cmd = "copy_texture_to_buffer"
Clamp(v, low, high) == IF v < low THEN low ELSE IF v > high THEN high ELSE v

\* C12: the picker command buffer ends with the one texture to buffer
\* copy of the frame, recorded right after the picker render pass has
\* ended; the copy has the extent 1x1x1 and its origin is the requested
\* position clamped into the picker texture.
C12_PickerCopiesOneTexelInside ==
    Recorded =>
        LET size == engine_context.global_context.screen_size_textures
            last == Len(PickerCommands)
            copy == PickerCommands[last]
        IN  /\ draw_command_buffers[1].name = "picker"
            /\ \A i \in DOMAIN draw_command_buffers :
                   Len(SelectSeq(draw_command_buffers[i].commands, IsCopyCommand))
                       = IF i = 1 THEN 1 ELSE 0
            /\ IsCopyCommand(copy)
            /\ PickerCommands[last - 1] = end_pass("picker_render_pass_context")
            /\ PickerCommands[1] = create_pass("picker_render_pass_context", <<>>)
            /\ Len(SelectSeq(PickerCommands, LAMBDA c : c.cmd \in {"begin_render_pass", "end_render_pass"})) = 2
            /\ copy.data =
                   << Clamp(instruction.picker_position.left, 0, size.width - 1),
                      Clamp(instruction.picker_position.top, 0, size.height - 1),
                      0, 1, 1, 1 >>
            /\ copy.data[1] \in 0 .. size.width - 1
            /\ copy.data[2] \in 0 .. size.height - 1

C12_Witness ==
    /\ Recorded
    /\ engine_context.global_context.screen_size_textures = Size(2, 2)
    /\ instruction.picker_position = Position(5, 1)
    /\ PickerCommands[Len(PickerCommands)].data = <<1, 1, 0, 1, 1, 1>>

\* the steps of a whole frame
FrameSteps ==
    << "recall", "prepare", "upload", "draw", "finish", "queue_picker_value",
       "poll", "submit", "present", "end_frame_stage" >>
IsPrefix(s, t) == Len(s) <= Len(t) /\ s = SubSeq(t, 1, Len(s))
\* the step ends a call of render_next_frame with a return to the caller
Returns == pc' = "idle" /\ (pc # "idle" \/ RenderCalled)

\* C13: render_next_frame returns to its caller only with the whole frame
\* done: submitted, presented and the timing stage ended; a call that does
\* not get that far has aborted, and after an abort the engine does
\* nothing more.
C13_FrameCompletesOrAborts ==
    [][ /\ Returns =>
               /\ trace' = FrameSteps
               /\ Len(submissions') = Len(submissions)
               /\ submissions' # <<>>
               /\ frame' = None
               /\ frame_pacer'.cpu_stage = "ended"
        /\ (RenderCalled /\ TooManyCasters(instruction')) => pc' = "aborted"
        /\ pc = "aborted" =>
               /\ pc' = "aborted"
               /\ UNCHANGED <<engine, pacing, staging_belt, recording, frame,
                              frames_acquired, trace, submissions, last_op>> ]_vars

C13_Witness ==
    /\ pc = "idle"
    /\ last_op.op = "render_next_frame"
    /\ trace = FrameSteps
    /\ frame = None
    /\ frame_pacer.cpu_stage = "ended"
    /\ Len(submissions) = 2

\* C14: the steps of a frame are taken in the order recall, prepare,
\* upload, draw, finish, queue of the picker read, poll, submit, present,
\* end of the timing stage, each once; all recording is done when the
\* device is polled, and the frame is presented after the submission.
C14_FrameStepsInOrder ==
    /\ IsPrefix(trace, FrameSteps)
    /\ pc = "wait_and_submit_frame" =>
           /\ trace = SubSeq(FrameSteps, 1, 6)
           /\ staging_belt = "finished"
           /\ prepare_command_buffer # None
           /\ Len(draw_command_buffers) = 6
           /\ submitted = <<>>
    /\ pc = "present" =>
           /\ trace = SubSeq(FrameSteps, 1, 8)
           /\ Len(submitted) = 1
           /\ frame # None
    /\ pc = "end_frame_stage" =>
           /\ trace = SubSeq(FrameSteps, 1, 9)
           /\ Len(submitted) = 1
           /\ frame = None

C14_Witness ==
    /\ pc = "end_frame_stage"
    /\ trace = SubSeq(FrameSteps, 1, 9)
    /\ frames_acquired = 2

\* the step is a prepare call, an upload call, a pass recorded in the draw
\* scope
PrepareCall == pc = "prepare_scope" /\ prepared' # prepared
UploadCall == pc = "upload" /\ pc' = "upload"
DrawCall == pc = "draw_scope" /\ encoders' # encoders
PrepareCalls == CallsOf(PrepareTasks(feature_debug)) \cup Range(PrepareInPlace)

\* C15: no prepare call is made once an upload has been made; every
\* upload call is made with the prepare scope joined and every prepare
\* call made; every pass of the draw scope is recorded with every upload
\* made and the upload encoder finished.
C15_PrepareBeforeUploadBeforeDraw ==
    [][ /\ PrepareCall =>
               /\ prepare_command_buffer = None
               /\ "prepare" \notin DOMAIN encoders
        /\ UploadCall =>
               /\ ScopeJoined
               /\ \A c \in PrepareCalls : prepared[c] # <<>>
               /\ prepared' = prepared
        /\ DrawCall =>
               /\ prepare_command_buffer # None
               /\ Len(prepare_command_buffer.commands) = Len(UploadOrder(feature_debug))
               /\ prepare_command_buffer' = prepare_command_buffer
               /\ staging_belt = "written" ]_vars

C15_Witness ==
    /\ pc = "draw_scope"
    /\ encoders["geometry"].commands # <<>>
    /\ encoders["picker"].commands = <<>>
    /\ in_place # <<>>

\* C16: in the prepare scope no two threads that still have calls to make
\* are at a call on the same component; every task makes the calls of
\* its group in their written order; no component is prepared twice, and
\* when the scope is joined every component that is uploaded has been
\* prepared exactly once.
C16_PrepareGroupsDisjoint ==
    /\ \A c \in DOMAIN prepared : Len(prepared[c]) <= 1
    /\ pc = "prepare_scope" =>
           /\ \A t1 \in DOMAIN tasks, t2 \in DOMAIN tasks :
                  (t1 # t2 /\ tasks[t1] # <<>> /\ tasks[t2] # <<>>) =>
                      Head(tasks[t1]) # Head(tasks[t2])
           /\ \A t \in DOMAIN tasks :
                  (tasks[t] # <<>> /\ in_place # <<>>) => Head(tasks[t]) # Head(in_place)
           /\ \A t \in DOMAIN tasks :
                  LET group == PrepareTasks(feature_debug)[t]
                      made == Len(group) - Len(tasks[t])
                  IN  /\ tasks[t] = SubSeq(group, made + 1, Len(group))
                      /\ \A i \in DOMAIN group :
                             prepared[group[i]] = IF i <= made THEN << t >> ELSE <<>>
           /\ LET made == Len(PrepareInPlace) - Len(in_place)
              IN  /\ in_place = SubSeq(PrepareInPlace, made + 1, Len(PrepareInPlace))
                  /\ \A i \in DOMAIN PrepareInPlace :
                         prepared[PrepareInPlace[i]] =
                             IF i <= made THEN << MainThread >> ELSE <<>>
    /\ pc \in {"upload", "draw_frame", "draw_scope"} =>
           /\ DOMAIN prepared = Range(UploadOrder(feature_debug))
           /\ \A c \in DOMAIN prepared : Len(prepared[c]) = 1

C16_Witness ==
    /\ pc = "prepare_scope"
    /\ Len(tasks[1]) = 1
    /\ Len(tasks[2]) = 1
    /\ Len(tasks[6]) = 2
    /\ Len(in_place) = 2

\* the passes in the order of the tuple draw_frame returns
DrawPasses ==
    << "picker", "interface", "directional_shadow", "point_shadow", "geometry", "screen" >>

\* C17: outside the two scopes no task has a call left; an encoder has at
\* most one writer; the screen encoder is written by the calling thread
\* and each other draw encoder by the task spawned for its pass; the
\* tuple draw_frame returns holds every pass whole.
C17_ScopesJoinAndEncodersAreOwned ==
    /\ pc \notin {"prepare_scope", "draw_scope"} => ScopeJoined
    /\ \A e \in DOMAIN encoders : Cardinality(encoders[e].writers) <= 1
    /\ DOMAIN encoders = DrawEncoders =>
           /\ encoders["screen"].writers \subseteq {MainThread}
           /\ \A t \in DOMAIN DrawTasks :
                  encoders[DrawTasks[t][1]].writers \subseteq {t}
           /\ pc # "draw_scope" =>
                  \A e \in DrawEncoders : Cardinality(encoders[e].writers) = 1
    /\ Recorded =>
           \A i \in DOMAIN DrawPasses :
               /\ draw_command_buffers[i].name = DrawPasses[i]
               /\ draw_command_buffers[i].commands =
                      PassCommands(DrawPasses[i], instruction, feature_debug)

C17_Witness ==
    /\ pc = "staging_belt_finish"
    /\ Recorded
    /\ encoders["screen"].writers = {MainThread}
    /\ encoders["point_shadow"].writers = {4}
    /\ Len(draw_command_buffers[4].commands) > 0

\* the step is made inside a scope, by a task or by its closure
ScopeStep == pc \in {"prepare_scope", "draw_scope"} /\ pc' = pc

\* C18: no step inside a scope touches the staging belt; the belt is
\* recalled by the call of render_next_frame, written by the uploads and
\* finished once, each with no task running; it is finished when the
\* frame is submitted.
C18_StagingBeltOnCallingThread ==
    [][ /\ ScopeStep => staging_belt' = staging_belt
        /\ staging_belt' # staging_belt =>
               /\ ScopeJoined
               /\ \/ RenderCalled /\ staging_belt' = "recalled"
                  \/ UploadCall /\ staging_belt = "recalled" /\ staging_belt' = "written"
                  \/ /\ pc = "staging_belt_finish"
                     /\ staging_belt = "written"
                     /\ staging_belt' = "finished"
        /\ UploadCall =>
               /\ ScopeJoined
               /\ staging_belt \in {"recalled", "written"}
               /\ staging_belt' = "written"
        /\ pc = "wait_and_submit_frame" => staging_belt = "finished" ]_vars

C18_Witness ==
    /\ pc = "wait_and_submit_frame"
    /\ staging_belt = "finished"
    /\ tasks # <<>>
    /\ ScopeJoined

\* the order of the uploads
FixedUploadOrder ==
    << "directional_shadow_entity_drawer", "directional_shadow_model_drawer",
       "directional_shadow_pass_context", "geometry_entity_drawer",
       "geometry_model_drawer", "global_context", "interface_rectangle_drawer",
       "picker_entity_drawer", "point_shadow_entity_drawer", "point_shadow_model_drawer",
       "point_shadow_pass_context", "screen_directional_light_drawer",
       "screen_effect_drawer", "screen_point_light_drawer", "screen_rectangle_drawer" >>
    \o (IF feature_debug
        THEN << "picker_marker_drawer", "screen_aabb_drawer", "screen_buffer_drawer",
                "screen_circle_drawer" >>
        ELSE <<>>)
FixedUploads == [i \in DOMAIN FixedUploadOrder |-> upload(FixedUploadOrder[i])]

\* C19: the uploads are recorded by the calling thread on the one upload
\* encoder in one fixed order, the same for every instruction and
\* interleaving of the prepare tasks; the finished encoder is the prepare
\* command buffer, the first command buffer of the submission.
C19_UploadsInFixedOrder ==
    /\ "prepare" \in DOMAIN encoders =>
           /\ DOMAIN encoders = {"prepare"}
           /\ IsPrefix(encoders["prepare"].commands, FixedUploads)
           /\ encoders["prepare"].writers \subseteq {MainThread}
    /\ prepare_command_buffer # None =>
           /\ prepare_command_buffer.name = "prepare"
           /\ prepare_command_buffer.commands = FixedUploads
    /\ Submitted => submitted[1][1] = prepare_command_buffer

C19_Witness ==
    /\ Submitted
    /\ ~instruction.show_interface
    /\ submitted[1][1].commands = FixedUploads
    /\ prepared["global_context"] = << MainThread >>

\* the render passes a command buffer opens, the drawers it invokes
PassesOf(i) ==
    SelectSeq(draw_command_buffers[i].commands,
              LAMBDA command : command.cmd = "begin_render_pass")
DrawersOf(i) ==
    LET draws == SelectSeq(draw_command_buffers[i].commands,
                           LAMBDA command : command.cmd = "draw")
    IN  [j \in DOMAIN draws |-> draws[j].target]

\* C21: in the command buffers of a frame the picker, interface,
\* directional shadow, geometry and screen pass contexts each open one
\* render pass, in their own command buffer; the point shadow pass
\* context opens 6*N render passes for N casters, all in the point shadow
\* command buffer, the k-th for caster k div 6 and face k mod 6.
C21_OnePassPerContextSixPerCaster ==
    Recorded =>
        LET context ==
                << "picker_render_pass_context", "interface_render_pass_context",
                   "directional_shadow_pass_context", "point_shadow_pass_context",
                   "geometry_pass_context", "screen_pass_context" >>
        IN  /\ \A i \in {1, 2, 3, 5, 6} :
                   /\ Len(PassesOf(i)) = 1
                   /\ PassesOf(i)[1].target = context[i]
            /\ draw_command_buffers[4].name = "point_shadow"
            /\ Len(PassesOf(4)) = 6 * instruction.point_light_shadow_caster
            /\ \A k \in DOMAIN PassesOf(4) :
                   /\ PassesOf(4)[k].target = context[4]
                   /\ PassesOf(4)[k].data = << (k - 1) \div 6, (k - 1) % 6 >>

C21_Witness ==
    /\ Recorded
    /\ instruction.point_light_shadow_caster = NUMBER_OF_POINT_LIGHTS_WITH_SHADOWS
    /\ Len(PassesOf(4)) = 6 * NUMBER_OF_POINT_LIGHTS_WITH_SHADOWS
    /\ PassesOf(4)[7].data = << 1, 0 >>

\* C22: the drawers of the picker pass are tile, entity (then the marker
\* drawer of a debug build); of the directional shadow pass model,
\* indicator, entity; of every point shadow sub-pass model, entity,
\* indicator; of the geometry pass model, indicator, entity, then water
\* if and only if the instruction carries a water vertex buffer.
C22_DrawerOrderInsidePasses ==
    Recorded =>
        /\ DrawersOf(1) =
               << "picker_tile_drawer", "picker_entity_drawer" >>
               \o (IF feature_debug THEN << "picker_marker_drawer" >> ELSE <<>>)
        /\ DrawersOf(3) =
               << "directional_shadow_model_drawer", "directional_shadow_indicator_drawer",
                  "directional_shadow_entity_drawer" >>
        /\ Len(draw_command_buffers[4].commands) =
               5 * 6 * instruction.point_light_shadow_caster
        /\ \A k \in DOMAIN PassesOf(4) :
               LET first == 5 * (k - 1)
                   commands == draw_command_buffers[4].commands
               IN  /\ commands[first + 1].cmd = "begin_render_pass"
                   /\ commands[first + 2] = draw("point_shadow_model_drawer")
                   /\ commands[first + 3] = draw("point_shadow_entity_drawer")
                   /\ commands[first + 4] = draw("point_shadow_indicator_drawer")
                   /\ commands[first + 5].cmd = "end_render_pass"
        /\ DrawersOf(5) =
               << "geometry_model_drawer", "geometry_indicator_drawer",
                  "geometry_entity_drawer" >>
               \o (IF instruction.map_water_vertex_buffer
                   THEN << "geometry_water_drawer" >> ELSE <<>>)

C22_Witness ==
    /\ Recorded
    /\ instruction.map_water_vertex_buffer
    /\ instruction.point_light_shadow_caster = NUMBER_OF_POINT_LIGHTS_WITH_SHADOWS
    /\ Len(DrawersOf(5)) = 4
    /\ Len(DrawersOf(4)) = 18 * NUMBER_OF_POINT_LIGHTS_WITH_SHADOWS

\* C23: a step that sets the limit leaves limit_framerate true exactly
\* for a fixed rate and the frame pacer's frequency at that rate (as it
\* was for Unlimited); no other step changes either; wait_for_next_frame
\* makes the pacing wait if and only if limit_framerate is set.
C23_PacingFollowsLastLimit ==
    [][ LET sets_limit ==
                /\ last_op' # last_op
                /\ last_op'.op \in {"set_limit_framerate", "on_resume"}
        IN  /\ sets_limit =>
                   /\ limit_framerate' = last_op'.limit.limited
                   /\ frame_pacer'.monitor_frequency =
                          IF last_op'.limit.limited THEN last_op'.limit.rate
                          ELSE frame_pacer.monitor_frequency
            /\ ~sets_limit =>
                   /\ limit_framerate' = limit_framerate
                   /\ frame_pacer'.monitor_frequency = frame_pacer.monitor_frequency
            /\ WaitCalled =>
                   ("wait_for_frame" \in Range(last_op'.steps) <=> limit_framerate) ]_vars

\* a frame is awaited without pacing after the limit was set and lifted
C23_Witness ==
    /\ last_op.op = "wait_for_next_frame"
    /\ "wait_for_frame" \notin Range(last_op.steps)
    /\ ~limit_framerate
    /\ frame_pacer.monitor_frequency = 30
    /\ frames_acquired = 2

\* C26: a surface is present only with an EngineContext; an EngineContext
\* is present exactly when a surface format is recorded; a frame is held
\* only with an EngineContext; and no step takes the engine from having
\* an EngineContext to having none.
C26_ContextOutlivesSurface ==
    /\ [](/\ surface # None => engine_context # None
          /\ engine_context # None <=> previous_surface_texture_format # NoFormat
          /\ frame # None => engine_context # None)
    /\ [][engine_context # None => engine_context' # None]_vars

\* the surface is gone, the context of the second format is still there
C26_Witness ==
    /\ surface = None
    /\ engine_context # None
    /\ contexts_built = 2
    /\ frames_acquired > 0
    /\ last_op.op = "on_suspended"

\* C27: every component uploaded has been prepared in the frame, and
\* when the upload encoder is finished the components uploaded are the
\* components prepared, each prepared once and uploaded once.
C27_PreparedIsUploaded ==
    LET prepared_components == {c \in DOMAIN prepared : prepared[c] # <<>>}
        uploaded(commands) == {commands[i].target : i \in DOMAIN commands}
    IN  /\ "prepare" \in DOMAIN encoders =>
               uploaded(encoders["prepare"].commands) \subseteq prepared_components
        /\ prepare_command_buffer # None =>
               /\ uploaded(prepare_command_buffer.commands) = prepared_components
               /\ prepared_components = DOMAIN prepared
               /\ \A c \in prepared_components :
                      /\ Len(prepared[c]) = 1
                      /\ Len(SelectSeq(prepare_command_buffer.commands,
                                       LAMBDA command : command.target = c)) = 1

C27_Witness ==
    /\ pc = "draw_frame"
    /\ prepare_command_buffer # None
    /\ feature_debug
    /\ Cardinality({c \in DOMAIN prepared : prepared[c] # <<>>}) = 19
    /\ Len(prepare_command_buffer.commands) = 19

\* C28: a call of on_resume with a surface present sets the frame rate
\* limit and leaves the surface, the EngineContext, the recorded format
\* and every other part of the engine as they were.
C28_ResumeWithSurfaceSetsOnlyLimit ==
    [][ (last_op' # last_op /\ last_op'.op = "on_resume" /\ surface # None) =>
            /\ UNCHANGED <<surface, engine_context, previous_surface_texture_format,
                           contexts_built, picker_value_buffers, staging_belt, gpu,
                           recording, caller>>
            /\ ~last_op'.created_surface
            /\ ~last_op'.rebuilt
            /\ limit_framerate' = last_op'.limit.limited ]_vars

\* on_resume on a surface created with the other settings
C28_Witness ==
    /\ last_op.op = "on_resume"
    /\ ~last_op.created_surface
    /\ surface # None
    /\ ~surface.vsync
    /\ engine_context.global_context.shadow_size_textures = "Ultra"
    /\ last_op.limit = Limit(30)
    /\ frames_acquired > 0

\* C29: wait_for_next_frame begins the CPU timing stage, and finds it
\* not begun; the stage is ended only by the last step of
\* render_next_frame, after the frame was presented, and was begun then;
\* no other step touches it, and an aborted frame leaves it begun.
C29_TimingStageAlternates ==
    /\ [][ /\ WaitCalled =>
                  /\ frame_pacer.cpu_stage \in {"created", "ended"}
                  /\ frame_pacer'.cpu_stage = "begun"
           /\ frame_pacer'.cpu_stage # frame_pacer.cpu_stage =>
                  \/ WaitCalled
                  \/ /\ frame_pacer.cpu_stage = "begun"
                     /\ frame_pacer'.cpu_stage = "ended"
                     /\ pc = "end_frame_stage"
                     /\ pc' = "idle"
                     /\ frame = None
                     /\ trace[Len(trace)] = "present"
           /\ (pc = "end_frame_stage" /\ pc' # pc) => frame_pacer'.cpu_stage = "ended" ]_vars
    /\ [](pc \notin {"idle", "aborted"} => frame_pacer.cpu_stage = "begun")
    /\ [](pc = "aborted" => frame_pacer.cpu_stage = "begun")
    /\ []((pc = "idle" /\ frame = None) => frame_pacer.cpu_stage \in {"created", "ended"})

\* the second frame has ended its stage
C29_Witness ==
    /\ frame_pacer.cpu_stage = "ended"
    /\ frames_acquired = 2
    /\ pc = "idle"
    /\ frame = None
    /\ trace[Len(trace)] = "end_frame_stage"


\* C24: set_position with a tile outside the map leaves the entity, with
\* its tile_position, world_position, active_movement and animation
\* state, as it was.
C24_OutOfBoundsPositionIgnored ==
    [][ ( /\ entity_op'.op = "set_position"
          /\ \/ entity_op'.position.x >= entity_op'.map.width
             \/ entity_op'.position.y >= entity_op'.map.height ) =>
            /\ entity' = entity
            /\ entity' # None ]_vars

\* a walking entity was sent outside the map and walks on
C24_Witness ==
    /\ entity_op.op = "set_position"
    /\ entity_op.position.x >= entity_op.map.width
    /\ entity.active_movement # None
    /\ is_walking(entity.animation_state)
    /\ entity.tile_position # entity_op.position

\* C25: Npc::new returns None, and no entity exists, exactly when the
\* tile of the entity data is outside the map; otherwise it returns the
\* entity at that tile and its world position, not stopped, and with a
\* movement only if the entity data has a destination.
C25_NpcNewChecksBounds ==
    [][ (entity_op'.op = "npc_new" /\ <<entity, entity_op>>' # <<entity, entity_op>>) =>
            LET out == \/ entity_op'.position.x >= entity_op'.map.width
                       \/ entity_op'.position.y >= entity_op'.map.height
            IN  /\ entity_op'.returned = entity'
                /\ (entity' = None) <=> out
                /\ ~out =>
                       /\ entity'.tile_position = entity_op'.position
                       /\ entity'.world_position =
                              [x |-> TileSize * entity_op'.position.x,
                               z |-> TileSize * entity_op'.position.y]
                       /\ entity'.active_movement # None =>
                              /\ entity_op'.destination # None
                              /\ is_walking(entity'.animation_state)
                       /\ entity'.active_movement = None =>
                              ~is_walking(entity'.animation_state) ]_vars

\* an Npc created on its way to a destination
C25_Witness ==
    /\ entity_op.op = "npc_new"
    /\ entity # None
    /\ entity.active_movement # None
    /\ Len(entity.active_movement.steps) = 3
    /\ entity_op.destination # None

\* C30: an update at a tick after the arrival of the last step of the
\* active movement leaves no movement, stopped_moving true, the entity
\* on the tile of the last step at its world position, and the animation
\* idle; every other update leaves stopped_moving false.
C30_MovementFinishesAtLastStep ==
    [][ LET steps == entity.active_movement.steps
            last_step == steps[Len(steps)]
        IN
        (entity_op'.op = "update" /\ <<entity, entity_op>>' # <<entity, entity_op>>) =>
            IF /\ entity.active_movement # None
               /\ entity_op'.client_tick > last_step.arrival_timestamp
            THEN /\ entity'.active_movement = None
                 /\ entity'.stopped_moving
                 /\ entity'.tile_position = last_step.arrival_position
                 /\ entity'.world_position =
                        [x |-> TileSize * last_step.arrival_position.x,
                         z |-> TileSize * last_step.arrival_position.y]
                 /\ entity'.animation_state.action = "idle"
            ELSE ~entity'.stopped_moving ]_vars

\* C36: the entity type of an entity is the class of its job id: 45 is
\* Warp, 111 Hidden, 0..44 and 4000..5999 Player, 46..999 without 111 and
\* 10000..19999 Npc, 1000..3999 and 20000..29999 Monster, every other id
\* Npc; every job id has a class.
C36_EntityTypeOfJob ==
    entity # None =>
        LET job == entity.job_id
        IN  /\ entity.entity_type \in {"Hidden", "Monster", "Npc", "Player", "Warp"}
            /\ entity.entity_type =
                   CASE job = 45 -> "Warp"
                     [] job = 111 -> "Hidden"
                     [] job \in 0..44 \/ job \in 4000..5999 -> "Player"
                     [] (job \in 46..999 /\ job # 111) \/ job \in 10000..19999 -> "Npc"
                     [] job \in 1000..3999 \/ job \in 20000..29999 -> "Monster"
                     [] OTHER -> "Npc"

\* the hidden job, inside the range of the Npc jobs
C36_Witness ==
    /\ entity # None
    /\ entity.job_id = 111
    /\ entity.entity_type = "Hidden"
    /\ entity_op.op = "npc_new"

\* C35: an update plays the key of the previous sound only at a distance
\* of at least the cooldown from the tick of that sound, the distance
\* taken modulo the width of the tick; it plays any other key; and the
\* remembered key and tick are those of the last sound played, changed by
\* no step that plays none.
C35_SoundCooldown ==
    /\ [](entity # None =>
              (entity.sound_state.previous_key = None
                   <=> entity.sound_state.last_played_at = None))
    /\ [][ (entity # None /\ entity' # None) =>
             LET before == entity.sound_state
                 after == entity'.sound_state
                 data == entity_op'.animation_data
                 sounds == /\ entity_op'.op = "update"
                           /\ data # None
                           /\ data.event # None
                 plays == sounds /\ entity_op'.played # None
                 distance == (entity_op'.client_tick - before.last_played_at.some) % U32
             IN  /\ (plays /\ before.previous_key = data.event) =>
                        distance >= SOUND_COOLDOWN_DURATION
                 /\ (sounds /\ before.previous_key = data.event) =>
                        (plays <=> distance >= SOUND_COOLDOWN_DURATION)
                 /\ (sounds /\ before.previous_key # data.event) => plays
                 /\ plays =>
                        /\ entity_op'.played = data.event
                        /\ after = [previous_key |-> data.event,
                                    last_played_at |-> Some(entity_op'.client_tick)]
                 /\ after # before => plays ]_vars

\* the key played just before the wrap of the tick is not played after it
C35_Witness ==
    /\ entity # None
    /\ entity_op.op = "update"
    /\ entity_op.animation_data.event = entity.sound_state.previous_key
    /\ entity_op.played = None
    /\ entity_op.client_tick = 1
    /\ entity.sound_state.last_played_at = Some(U32 - 1)

\* C37: confirming the password field returns the LogIn event, carrying
\* the username and the password of the window, exactly when neither is
\* empty; with an empty username it returns the move of the focus to the
\* previous field, whatever the password; with a username and an empty
\* password it returns nothing.  Confirming the username field returns
\* the move of the focus to the next field exactly when the username is
\* not empty, and nothing otherwise.  A confirmation changes no text.
C37_LoginFieldActions ==
    login_window # None =>
        LET username == login_window.username
            password == login_window.password
            returned == login_window.returned
            LogIn == [action |-> "Event", event |-> "LogIn", username |-> username,
                      password |-> password]
        IN  /\ login_window.confirmed = "password" =>
                   /\ returned = LogIn <=> (username # "" /\ password # "")
                   /\ (returned # None /\ returned.action = "Event") => returned = LogIn
                   /\ username = "" =>
                          returned = [action |-> "FocusNext", mode |-> "FocusPrevious"]
                   /\ (username # "" /\ password = "") => returned = None
            /\ login_window.confirmed = "username" =>
                   /\ returned = [action |-> "FocusNext", mode |-> "FocusNext"]
                          <=> username # ""
                   /\ username = "" => returned = None

\* the password is confirmed with no username: the focus goes back
C37_Witness ==
    /\ login_window # None
    /\ login_window.confirmed = "password"
    /\ login_window.username = ""
    /\ login_window.password = "b"
    /\ login_window.returned = [action |-> "FocusNext", mode |-> "FocusPrevious"]

\* C33: a move_from_to that finds no path, or a path of at most one
\* tile, leaves the entity as it was: its movement, position, direction
\* and animation state.
C33_NoPathChangesNothing ==
    [][ ( /\ entity_op'.op = "move_from_to"
          /\ <<entity, entity_op>>' # <<entity, entity_op>>
          /\ LET path == find_walkable_path(entity_op'.map, entity_op'.position,
                                            entity_op'.destination)
             IN  path = None \/ Len(path.tiles) <= 1 ) =>
            /\ entity' = entity
            /\ entity' # None ]_vars

\* a walking entity is sent to a tile outside the map and walks on
C33_Witness ==
    /\ entity_op.op = "move_from_to"
    /\ find_walkable_path(entity_op.map, entity_op.position, entity_op.destination) = None
    /\ entity.active_movement # None
    /\ is_walking(entity.animation_state)
    /\ entity.active_movement.starting_timestamp # entity_op.client_tick

\* C32: a move_from_to that finds a path of n >= 2 tiles leaves a
\* movement of n steps: the first is the start tile at the starting
\* timestamp, every later one is the tile of the path, arriving at the
\* arrival of the step before plus the movement speed for an orthogonal
\* move and plus the floor of 1.4 times the movement speed for a diagonal
\* one, and so not before it; the walk animation is started unless the
\* entity was walking.
C32_StepsOfTheMovement ==
    [][ ( /\ entity_op'.op = "move_from_to"
          /\ <<entity, entity_op>>' # <<entity, entity_op>>
          /\ find_walkable_path(entity_op'.map, entity_op'.position,
                                entity_op'.destination) # None ) =>
            LET tiles == find_walkable_path(entity_op'.map, entity_op'.position,
                                            entity_op'.destination).tiles
                n == Len(tiles)
                steps == entity'.active_movement.steps
                speed == entity.movement_speed
            IN  n >= 2 =>
                    /\ entity'.active_movement # None
                    /\ entity'.active_movement.starting_timestamp = entity_op'.client_tick
                    /\ Len(steps) = n
                    /\ steps[1] = Step(entity_op'.position, entity_op'.client_tick)
                    /\ \A i \in 2..n :
                           /\ steps[i].arrival_position = tiles[i]
                           /\ steps[i].arrival_timestamp =
                                  steps[i - 1].arrival_timestamp
                                      + (IF \/ steps[i - 1].arrival_position.x = tiles[i].x
                                            \/ steps[i - 1].arrival_position.y = tiles[i].y
                                         THEN speed ELSE (14 * speed) \div 10)
                           /\ steps[i - 1].arrival_timestamp <= steps[i].arrival_timestamp
                    /\ entity'.animation_state =
                           IF is_walking(entity.animation_state)
                           THEN entity.animation_state
                           ELSE walk(entity.animation_state, entity_op'.client_tick) ]_vars

\* the step is an update of an entity with a movement, at a tick not
\* after the arrival of the last step
UpdatesMovement ==
    /\ entity_op'.op = "update"
    /\ <<entity, entity_op>>' # <<entity, entity_op>>
    /\ entity.active_movement # None
    /\ LET steps == entity.active_movement.steps
       IN  entity_op'.client_tick <= steps[Len(steps)].arrival_timestamp

\* the indices the step search of such an update can end at: every step
\* up to the index arrives before the tick, the next one does not
SearchEnds ==
    LET steps == entity.active_movement.steps
    IN  { i \in 1..(Len(steps) - 1) :
              /\ \A j \in 2..i : steps[j].arrival_timestamp < entity_op'.client_tick
              /\ steps[i + 1].arrival_timestamp >= entity_op'.client_tick }

\* the update leaves the entity between the two steps, at offset of total
Placed(last_step, next_step, offset, total) ==
    LET from == [x |-> TileSize * last_step.arrival_position.x,
                 z |-> TileSize * last_step.arrival_position.y]
        to == [x |-> TileSize * next_step.arrival_position.x,
               z |-> TileSize * next_step.arrival_position.y]
    IN  /\ (entity'.world_position.x - from.x) * total = (to.x - from.x) * offset
        /\ (entity'.world_position.z - from.z) * total = (to.z - from.z) * offset

\* C31 as stated: an update of a movement at a tick not after the arrival
\* of its last step ends its step search on two steps of the list, with
\* an offset from 0 to total, the u32 difference of the two arrivals,
\* places the entity at that offset between the two steps and keeps the
\* movement.
C31_PlacedBetweenTwoSteps ==
    [][ UpdatesMovement =>
            /\ SearchEnds # {}
            /\ \A i \in SearchEnds :
                   LET steps == entity.active_movement.steps
                       tick == entity_op'.client_tick
                       clamped_tick == IF steps[i].arrival_timestamp >= tick
                                       THEN steps[i].arrival_timestamp ELSE tick
                       offset == clamped_tick - steps[i].arrival_timestamp
                       total == (steps[i + 1].arrival_timestamp
                                     - steps[i].arrival_timestamp) % U32
                   IN  /\ 0 <= offset
                       /\ offset <= total
                       /\ Placed(steps[i], steps[i + 1], offset, total)
            /\ entity'.active_movement = entity.active_movement ]_vars

\* C31, amended: as above, but the entity is placed between the two
\* steps only if the map of the update has both tiles; if it lacks one,
\* the world position stays as it was.  In both cases the entity is on
\* the tile of the second step and keeps the movement.
C31_PlacedIfTheMapHasBothTiles ==
    [][ UpdatesMovement =>
            /\ SearchEnds # {}
            /\ \A i \in SearchEnds :
                   LET steps == entity.active_movement.steps
                       tick == entity_op'.client_tick
                       clamped_tick == IF steps[i].arrival_timestamp >= tick
                                       THEN steps[i].arrival_timestamp ELSE tick
                       offset == clamped_tick - steps[i].arrival_timestamp
                       total == (steps[i + 1].arrival_timestamp
                                     - steps[i].arrival_timestamp) % U32
                       inside(tile) == /\ tile.x < entity_op'.map.width
                                       /\ tile.y < entity_op'.map.height
                   IN  /\ 0 <= offset
                       /\ offset <= total
                       /\ entity'.tile_position = steps[i + 1].arrival_position
                       /\ IF /\ inside(steps[i].arrival_position)
                             /\ inside(steps[i + 1].arrival_position)
                          THEN Placed(steps[i], steps[i + 1], offset, total)
                          ELSE entity'.world_position = entity.world_position
            /\ entity'.active_movement = entity.active_movement ]_vars

\* half-way through the second, orthogonal move of a movement that
\* started before the wrap of the tick
C31_Witness ==
    /\ entity # None
    /\ entity_op.op = "update"
    /\ entity.active_movement # None
    /\ Len(entity.active_movement.steps) = MaxTile
    /\ entity.active_movement.starting_timestamp = U32 - MaxTick
    /\ entity.tile_position = TilePosition(2, 1)
    /\ entity.world_position.z = TileSize
    /\ entity.world_position.x \notin {TileSize, 2 * TileSize}

\* C34: an update of a dead entity leaves it dead: the dead animation
\* ends only with a call of set_idle, set_attack, set_pickup,
\* set_position or move_from_to.
C34_DeadUntilToldOtherwise ==
    [][ ( /\ entity # None
          /\ entity.animation_state.action = "dead"
          /\ entity_op'.op \in {"update", "stop_movement"}
          /\ <<entity, entity_op>>' # <<entity, entity_op>> ) =>
            entity'.animation_state = entity.animation_state ]_vars

====
